---------------------------- MODULE Spec2Model ----------------------------
(***************************************************************************)
(* The s3 package of go-common: the Config a caller builds, the resolver   *)
(* autoConfigureForProvider with its provider detection, the validators    *)
(* and the constructor NewClient.                                          *)
(*                                                                         *)
(* Go strings that the code inspects character by character (Endpoint:     *)
(* strings.ToLower, strings.Contains, strings.HasPrefix) are sequences of  *)
(* one-character strings.  Strings the code only compares with == or       *)
(* copies (Provider, Region, BucketName, the credentials) are TLA+         *)
(* strings.  A Go error is a record: its message and the set of sentinel   *)
(* errors errors.Is finds in its chain.                                    *)
(***************************************************************************)
EXTENDS Naturals, Sequences, FiniteSets

(***************************************************************************)
(* Bounds of the model.                                                    *)
(***************************************************************************)
\* An endpoint's host is made of at most MaxLabels of the labels of HostLabels.
MaxLabels == 2

(***************************************************************************)
(* strings                                                                 *)
(***************************************************************************)
UpperLetters ==
  <<"A","B","C","D","E","F","G","H","I","J","K","L","M",
    "N","O","P","Q","R","S","T","U","V","W","X","Y","Z">>

LowerLetters ==
  <<"a","b","c","d","e","f","g","h","i","j","k","l","m",
    "n","o","p","q","r","s","t","u","v","w","x","y","z">>

\* unicode.ToLower on the letters A-Z
LowerOfUpper ==
  [c \in {UpperLetters[i] : i \in 1..26} |->
     LowerLetters[CHOOSE i \in 1..26 : UpperLetters[i] = c]]

\* unicode.ToLower on one character
LowerChar(c) == IF c \in DOMAIN LowerOfUpper THEN LowerOfUpper[c] ELSE c

\* strings.ToLower
ToLower(s) == [i \in 1..Len(s) |-> LowerChar(s[i])]

\* strings.HasPrefix
HasPrefix(s, prefix) ==
  /\ Len(prefix) <= Len(s)
  /\ \A i \in 1..Len(prefix) : s[i] = prefix[i]

\* strings.Contains
Contains(s, substr) ==
  \E k \in 0..Len(s) :
    /\ k + Len(substr) <= Len(s)
    /\ \A i \in 1..Len(substr) : s[k + i] = substr[i]

(***************************************************************************)
(* The string literals of the code, and the parts endpoints are made of.   *)
(***************************************************************************)
S_http == <<"h","t","t","p",":","/","/">>
S_https == <<"h","t","t","p","s",":","/","/">>
S_HTTP == <<"H","T","T","P",":","/","/">>
S_localhost == <<"l","o","c","a","l","h","o","s","t">>
S_loopback == <<"1","2","7",".","0",".","0",".","1">>
S_port9000 == <<":","9","0","0","0">>
S_minio == <<"m","i","n","i","o">>
S_MinIO == <<"M","i","n","I","O">>
S_dospaces ==
  <<"d","i","g","i","t","a","l","o","c","e","a","n","s","p","a","c","e","s",
    ".","c","o","m">>
S_nyc3 == <<"n","y","c","3">>
S_dot == <<".">>
S_cdn == <<"c","d","n",".","n","s","p","u","b","l","i","c",".","x","y","z">>

Schemes == {<< >>, S_http, S_https, S_HTTP}
Ports == {<< >>, S_port9000}
HostLabels ==
  <<S_minio, S_MinIO, S_localhost, S_loopback,
    S_nyc3 \o S_dot \o S_dospaces, S_cdn>>

\* The labels picked by the index set I, in the order of HostLabels, joined by dots.
RECURSIVE JoinLabels(_, _)
JoinLabels(I, from) ==
  IF from > Len(HostLabels) THEN << >>
  ELSE LET rest == JoinLabels(I, from + 1)
       IN IF from \notin I THEN rest
          ELSE IF rest = << >> THEN HostLabels[from]
          ELSE HostLabels[from] \o S_dot \o rest

Hosts ==
  { JoinLabels(I, 1) :
      I \in { J \in SUBSET (1..Len(HostLabels)) : Cardinality(J) <= MaxLabels } }

Endpoints == { s \o h \o p : s \in Schemes, h \in Hosts, p \in Ports }

(***************************************************************************)
(* Provider constants, Config                                              *)
(***************************************************************************)
ProviderAWS == "aws"
ProviderMinIO == "minio"
ProviderDigitalOcean == "digitalocean"
ProviderCustom == "custom"

ValidProviders ==
  {ProviderAWS, ProviderMinIO, ProviderDigitalOcean, ProviderCustom}

\* A *bool: nil, or a pointer to a boolean.
NilBool == << >>
BoolPtr(b) == <<b>>
Deref(p) == p[1]

\* The values a caller gives the fields of a Config.
ProviderInputs == {""} \cup ValidProviders \cup {"gcs"}
RegionInputs == {"", "us-east-1", "eu-west-1"}
KeyInputs == {"", "minioadmin"}
BucketInputs == {"", "b"}
PathStyleInputs == {NilBool, BoolPtr(TRUE), BoolPtr(FALSE)}

ConfigsOver(keys, buckets, endpoints) ==
  [Provider : ProviderInputs,
   Region : RegionInputs,
   AccessKeyID : keys,
   SecretAccessKey : keys,
   Endpoint : endpoints,
   BucketName : buckets,
   UseSSL : BOOLEAN,
   UsePathStyle : PathStyleInputs]

\* The Configs a caller builds.  With a bucket and credentials: every endpoint.
ValidatedConfigs == ConfigsOver({"minioadmin"}, {"b"}, Endpoints)

\* With or without a bucket and credentials: no endpoint, a local one, a Space.
UnvalidatedConfigs ==
  ConfigsOver(KeyInputs, BucketInputs,
              {<< >>, S_http \o S_localhost \o S_port9000,
               S_https \o S_nyc3 \o S_dot \o S_dospaces})

\* NewConfig builds a Config with an explicit provider: TLS on, addressing unset.
NewConfig(provider, region, accessKey, secretKey, endpoint, bucketName) ==
  [Provider |-> provider,
   Region |-> region,
   AccessKeyID |-> accessKey,
   SecretAccessKey |-> secretKey,
   Endpoint |-> endpoint,
   BucketName |-> bucketName,
   UseSSL |-> TRUE,
   UsePathStyle |-> NilBool]

(***************************************************************************)
(* errors                                                                  *)
(***************************************************************************)
NoError == [nil |-> TRUE]
NoConfig == [nil |-> TRUE]
NoClient == [nil |-> TRUE]

\* errors.New: a sentinel is found in its own chain.
ErrInvalidConfig ==
  [msg |-> "invalid configuration", chain |-> {"ErrInvalidConfig"}]
ErrEmptyBucketName ==
  [msg |-> "bucket name cannot be empty", chain |-> {"ErrEmptyBucketName"}]

\* fmt.Errorf with no %w verb: a new error that wraps nothing.
Errorf(msg) == [msg |-> msg, chain |-> {}]

\* fmt.Errorf("%w: " + text, err): the chain of err is kept.
ErrorfW(err, text) == [msg |-> err.msg \o ": " \o text, chain |-> err.chain]

\* fmt.Errorf(text + ": %w", err)
ErrorfCtx(text, err) == [msg |-> text \o ": " \o err.msg, chain |-> err.chain]

\* errors.Is(err, target), target a sentinel
ErrorsIs(err, target) == err # NoError /\ target.chain \subseteq err.chain

\* What config.LoadDefaultConfig returns when it fails.
SDKLoadError == [msg |-> "load default config", chain |-> {"SDKLoadError"}]

(***************************************************************************)
(* validation                                                              *)
(***************************************************************************)
\* ValidateConfig looking at the credentials before the bucket.
ValidateConfig_CredentialsFirst(cfg) ==
  IF cfg = NoConfig THEN [cfg |-> cfg, err |-> ErrInvalidConfig]
  ELSE IF cfg.AccessKeyID = "" \/ cfg.SecretAccessKey = ""
  THEN [cfg |-> cfg,
        err |-> ErrorfW(ErrInvalidConfig,
                        "access key ID and secret access key are required")]
  ELSE IF cfg.BucketName = "" THEN [cfg |-> cfg, err |-> ErrEmptyBucketName]
  ELSE IF cfg.Region = ""
  THEN [cfg |-> [cfg EXCEPT !.Region = "us-east-1"], err |-> NoError]
  ELSE [cfg |-> cfg, err |-> NoError]

\* ValidateConfig that fills the Region before it tests the bucket and the
\* credentials.
ValidateConfig_RegionFirst(cfg) ==
  IF cfg = NoConfig THEN [cfg |-> cfg, err |-> ErrInvalidConfig]
  ELSE
    LET filled == IF cfg.Region = "" THEN [cfg EXCEPT !.Region = "us-east-1"] ELSE cfg
    IN IF cfg.BucketName = "" THEN [cfg |-> filled, err |-> ErrEmptyBucketName]
       ELSE IF cfg.AccessKeyID = "" \/ cfg.SecretAccessKey = ""
       THEN [cfg |-> filled,
             err |-> ErrorfW(ErrInvalidConfig,
                             "access key ID and secret access key are required")]
       ELSE [cfg |-> filled, err |-> NoError]

\* ValidateConfig(cfg): the error, and cfg as it leaves it.
ValidateConfig(cfg) ==
  IF cfg = NoConfig THEN [cfg |-> cfg, err |-> ErrInvalidConfig]
  ELSE IF cfg.BucketName = "" THEN [cfg |-> cfg, err |-> ErrEmptyBucketName]
  ELSE IF cfg.AccessKeyID = "" \/ cfg.SecretAccessKey = ""
  THEN [cfg |-> cfg,
        err |-> ErrorfW(ErrInvalidConfig,
                        "access key ID and secret access key are required")]
  ELSE IF cfg.Region = ""
  THEN [cfg |-> [cfg EXCEPT !.Region = "us-east-1"], err |-> NoError]
  ELSE [cfg |-> cfg, err |-> NoError]

validateProvider(provider) ==
  IF provider \in ValidProviders THEN NoError
  ELSE Errorf("invalid provider: " \o provider)

\* ValidateMinIOConfig(cfg): the error, cfg as it leaves it, and what it logs.
ValidateMinIOConfig(cfg) ==
  IF cfg.Provider # ProviderMinIO
  THEN [cfg |-> cfg, err |-> NoError, log |-> << >>]
  ELSE IF cfg.Endpoint = << >>
  THEN [cfg |-> cfg,
        err |-> Errorf("MinIO requires an endpoint to be specified"),
        log |-> << >>]
  ELSE IF cfg.UsePathStyle # NilBool /\ ~Deref(cfg.UsePathStyle)
  THEN [cfg |-> [cfg EXCEPT !.UsePathStyle = BoolPtr(TRUE)],
        err |-> NoError,
        log |-> <<"WARNING: MinIO should use path-style addressing. Setting UsePathStyle to true">>]
  ELSE [cfg |-> cfg, err |-> NoError, log |-> << >>]

(***************************************************************************)
(* the resolver                                                            *)
(***************************************************************************)
\* detectProviderType comparing the endpoint as written: no strings.ToLower.
detectProviderType_NoToLower(endpoint) ==
  IF endpoint = << >> THEN ProviderAWS
  ELSE IF Contains(endpoint, S_dospaces) THEN ProviderDigitalOcean
  ELSE IF \/ Contains(endpoint, S_localhost)
          \/ Contains(endpoint, S_loopback)
          \/ Contains(endpoint, S_port9000)
          \/ Contains(endpoint, S_minio)
  THEN ProviderMinIO
  ELSE ProviderCustom

\* detectProviderType determines the provider from the endpoint.
detectProviderType(endpoint) ==
  IF endpoint = << >> THEN ProviderAWS
  ELSE LET lower == ToLower(endpoint)
       IN IF Contains(lower, S_dospaces) THEN ProviderDigitalOcean
          ELSE IF \/ Contains(lower, S_localhost)
                  \/ Contains(lower, S_loopback)
                  \/ Contains(lower, S_port9000)
                  \/ Contains(lower, S_minio)
          THEN ProviderMinIO
          ELSE ProviderCustom

\* ProviderTypeOf detecting from every endpoint, the explicit provider only
\* used without one.
ProviderTypeOf_DetectFirst(cfg) ==
  IF cfg.Endpoint # << >> \/ cfg.Provider = ""
  THEN detectProviderType(cfg.Endpoint)
  ELSE cfg.Provider

\* The provider autoConfigureForProvider works with: the explicit one if set.
ProviderTypeOf(cfg) ==
  IF cfg.Provider = "" THEN detectProviderType(cfg.Endpoint) ELSE cfg.Provider

\* ResolveRegion without the forcing for MinIO.
ResolveRegion_NoForcing(providerType, region) ==
  IF region = ""
  THEN CASE providerType = ProviderAWS -> "us-east-1"
         [] providerType = ProviderDigitalOcean -> "nyc3"
         [] OTHER -> "us-east-1"
  ELSE region

\* ResolveRegion with one default for every provider.
ResolveRegion_OneDefault(providerType, region) ==
  IF region = "" \/ providerType = ProviderMinIO THEN "us-east-1" ELSE region

\* The region steps: the default by provider, then the forcing for MinIO.
ResolveRegion(providerType, region) ==
  LET defaulted ==
        IF region = ""
        THEN CASE providerType = ProviderAWS -> "us-east-1"
               [] providerType = ProviderDigitalOcean -> "nyc3"
               [] OTHER -> "us-east-1"
        ELSE region
  IN IF providerType = ProviderMinIO /\ defaulted # "us-east-1"
     THEN "us-east-1"
     ELSE defaulted

\* ResolveUseSSL for every provider.
ResolveUseSSL_EveryProvider(providerType, endpoint, useSSL) ==
  IF HasPrefix(ToLower(endpoint), S_http) THEN FALSE
  ELSE IF HasPrefix(ToLower(endpoint), S_https) THEN TRUE
  ELSE useSSL

\* The TLS step: from the endpoint's scheme, for MinIO and custom.
ResolveUseSSL(providerType, endpoint, useSSL) ==
  IF providerType = ProviderMinIO \/ providerType = ProviderCustom
  THEN IF endpoint # << >>
       THEN IF HasPrefix(ToLower(endpoint), S_http) THEN FALSE
            ELSE IF HasPrefix(ToLower(endpoint), S_https) THEN TRUE
            ELSE useSSL
       ELSE useSSL
  ELSE useSSL

\* ResolveUsePathStyle without the forcing: a default only.
ResolveUsePathStyle_DefaultOnly(providerType, usePathStyle) ==
  IF usePathStyle = NilBool
  THEN CASE providerType = ProviderAWS -> BoolPtr(FALSE)
         [] providerType = ProviderDigitalOcean -> BoolPtr(FALSE)
         [] OTHER -> BoolPtr(TRUE)
  ELSE usePathStyle

\* ResolveUsePathStyle that turns a setting of AWS and DigitalOcean around.
ResolveUsePathStyle_Toggles(providerType, usePathStyle) ==
  IF providerType = ProviderMinIO \/ providerType = ProviderCustom
  THEN BoolPtr(TRUE)
  ELSE IF usePathStyle = NilBool THEN BoolPtr(FALSE)
  ELSE BoolPtr(~Deref(usePathStyle))

\* The addressing steps: the default when unset, then the forcing.
ResolveUsePathStyle(providerType, usePathStyle) ==
  LET defaulted ==
        IF usePathStyle = NilBool
        THEN CASE providerType = ProviderAWS -> BoolPtr(FALSE)
               [] providerType = ProviderDigitalOcean -> BoolPtr(FALSE)
               [] OTHER -> BoolPtr(TRUE)
        ELSE usePathStyle
  IN IF providerType = ProviderMinIO \/ providerType = ProviderCustom
     THEN BoolPtr(TRUE)
     ELSE defaulted

\* autoConfigureForProvider that does not write the detected provider to cfg.
autoConfigureForProvider_ProviderNotStored(cfg) ==
  LET providerType == ProviderTypeOf(cfg)
  IN [cfg EXCEPT
        !.Region = ResolveRegion(providerType, cfg.Region),
        !.UseSSL = ResolveUseSSL(providerType, cfg.Endpoint, cfg.UseSSL),
        !.UsePathStyle = ResolveUsePathStyle(providerType, cfg.UsePathStyle)]

\* autoConfigureForProvider(cfg): cfg as it leaves it.
autoConfigureForProvider(cfg) ==
  LET providerType == ProviderTypeOf(cfg)
  IN [cfg EXCEPT
        !.Provider = IF @ = "" THEN providerType ELSE @,
        !.Region = ResolveRegion(providerType, cfg.Region),
        !.UseSSL = ResolveUseSSL(providerType, cfg.Endpoint, cfg.UseSSL),
        !.UsePathStyle = ResolveUsePathStyle(providerType, cfg.UsePathStyle)]

(***************************************************************************)
(* NewClient                                                               *)
(***************************************************************************)
\* S3Options that are path-style for every endpoint that is set.
S3Options_PathStyleWithEndpoint(cfg) ==
  [Region |-> cfg.Region,
   AccessKeyID |-> cfg.AccessKeyID,
   SecretAccessKey |-> cfg.SecretAccessKey,
   BaseEndpoint |-> IF cfg.Endpoint # << >> THEN <<cfg.Endpoint>> ELSE << >>,
   UsePathStyle |-> cfg.Endpoint # << >>]

\* The options NewClient hands s3.NewFromConfig: the transport's settings.
S3Options(cfg) ==
  [Region |-> cfg.Region,
   AccessKeyID |-> cfg.AccessKeyID,
   SecretAccessKey |-> cfg.SecretAccessKey,
   BaseEndpoint |-> IF cfg.Endpoint # << >> THEN <<cfg.Endpoint>> ELSE << >>,
   UsePathStyle |->
     IF cfg.Provider = ProviderMinIO \/ cfg.Provider = ProviderCustom THEN TRUE
     ELSE IF cfg.UsePathStyle # NilBool /\ Deref(cfg.UsePathStyle) THEN TRUE
     ELSE FALSE]

\* What one run of NewClient returns and leaves behind.  c: the caller's
\* Config, which NewClient changes in place; loadFails: whether
\* config.LoadDefaultConfig returns an error.  resolverIn is the Config
\* autoConfigureForProvider was called with (NoConfig: it was not called),
\* sdk the SDK calls made, in order.
NewClientRun(c, loadFails) ==
  LET v == ValidateConfig(c)
      stop(cfgOut, e, rIn, logged, called) ==
        [client |-> NoClient, err |-> e, cfg |-> cfgOut, resolverIn |-> rIn,
         log |-> logged, sdk |-> called]
  IN IF v.err # NoError THEN stop(v.cfg, v.err, NoConfig, << >>, << >>)
     ELSE
       LET pe == IF v.cfg.Provider # ""
                 THEN validateProvider(v.cfg.Provider)
                 ELSE NoError
       IN IF pe # NoError THEN stop(v.cfg, pe, NoConfig, << >>, << >>)
          ELSE
            LET a == autoConfigureForProvider(v.cfg)
                m == ValidateMinIOConfig(a)
            IN IF m.err # NoError THEN stop(m.cfg, m.err, v.cfg, m.log, << >>)
               ELSE IF loadFails
               THEN stop(m.cfg,
                         ErrorfCtx("failed to load AWS config", SDKLoadError),
                         v.cfg, m.log, <<"LoadDefaultConfig">>)
               ELSE [client |-> [s3Client |-> S3Options(m.cfg),
                                 bucketName |-> m.cfg.BucketName],
                     err |-> NoError,
                     cfg |-> m.cfg,
                     resolverIn |-> v.cfg,
                     log |-> m.log,
                     sdk |-> <<"LoadDefaultConfig", "NewFromConfig">>]

(***************************************************************************)
(* The error taxonomy.                                                     *)
(***************************************************************************)
ErrObjectNotFound ==
  [msg |-> "object not found", chain |-> {"ErrObjectNotFound"}]
ErrBucketNotFound ==
  [msg |-> "bucket not found", chain |-> {"ErrBucketNotFound"}]
ErrAccessDenied == [msg |-> "access denied", chain |-> {"ErrAccessDenied"}]
ErrEmptyKey ==
  [msg |-> "object key cannot be empty", chain |-> {"ErrEmptyKey"}]

\* The error types of the transport that errors.As looks for, and two it does
\* not: an API error of another code, and the cancellation of the context.
T_NotFound == "types.NotFound"
T_NoSuchBucket == "types.NoSuchBucket"
T_NoSuchKey == "types.NoSuchKey"
T_APIError == "smithy.GenericAPIError"
T_Canceled == "context.Canceled"
TransportTypes == {T_NotFound, T_NoSuchBucket, T_NoSuchKey, T_APIError, T_Canceled}

\* An error of the transport with these types in its chain.
TransportError(types) == [msg |-> "api error", chain |-> types]

\* errors.As(err, &target), target of the type t
ErrorsAs(err, t) == err # NoError /\ t \in err.chain

\* WrapS3Error that keeps the chain of the error it classifies (%w for both).
WrapS3Error_KeepsChain(err) ==
  IF err = NoError THEN NoError
  ELSE IF ErrorsAs(err, T_NotFound)
  THEN [msg |-> ErrObjectNotFound.msg \o ": " \o err.msg,
        chain |-> ErrObjectNotFound.chain \cup err.chain]
  ELSE IF ErrorsAs(err, T_NoSuchBucket)
  THEN [msg |-> ErrBucketNotFound.msg \o ": " \o err.msg,
        chain |-> ErrBucketNotFound.chain \cup err.chain]
  ELSE IF ErrorsAs(err, T_NoSuchKey)
  THEN [msg |-> ErrObjectNotFound.msg \o ": " \o err.msg,
        chain |-> ErrObjectNotFound.chain \cup err.chain]
  ELSE err

\* WrapS3Error that looks for NoSuchKey before NoSuchBucket.
WrapS3Error_KeyBeforeBucket(err) ==
  IF err = NoError THEN NoError
  ELSE IF ErrorsAs(err, T_NotFound) \/ ErrorsAs(err, T_NoSuchKey)
  THEN ErrorfW(ErrObjectNotFound, err.msg)
  ELSE IF ErrorsAs(err, T_NoSuchBucket)
  THEN ErrorfW(ErrBucketNotFound, err.msg)
  ELSE err

\* WrapS3Error(err): "%w: %s" keeps the chain of the sentinel only.
WrapS3Error(err) ==
  IF err = NoError THEN NoError
  ELSE IF ErrorsAs(err, T_NotFound) THEN ErrorfW(ErrObjectNotFound, err.msg)
  ELSE IF ErrorsAs(err, T_NoSuchBucket) THEN ErrorfW(ErrBucketNotFound, err.msg)
  ELSE IF ErrorsAs(err, T_NoSuchKey) THEN ErrorfW(ErrObjectNotFound, err.msg)
  ELSE err

\* ValidateKey that also refuses a key with a slash or a space.
ValidateKey_Strict(key) ==
  IF key \in {"", " ", "test/hello.txt"} THEN ErrEmptyKey ELSE NoError

ValidateKey(key) == IF key = "" THEN ErrEmptyKey ELSE NoError

(***************************************************************************)
(* The transport: the s3.Client a Client holds.  A call answers from the   *)
(* bucket (fault = NoError), or fails with the error `fault`.              *)
(***************************************************************************)
\* An object of the bucket: absent, or its content.
Absent == << >>
Content(data) == <<data>>

\* The errors a call of the transport can fail with.
TransportFaults == { TransportError({t}) : t \in TransportTypes }
Outcomes == {NoError} \cup TransportFaults

\* No data: a nil []byte, a nil *Object, nothing written.
NoData == << >>

Present(st, key) == key \in DOMAIN st /\ st[key] # Absent

\* PutObject: the error, and the bucket after the call.
PutObject(st, key, body, fault) ==
  IF fault # NoError THEN [err |-> fault, store |-> st]
  ELSE [err |-> NoError, store |-> [st EXCEPT ![key] = Content(body)]]

\* GetObject: the error and the body.
GetObject(st, key, fault) ==
  IF fault # NoError THEN [err |-> fault, body |-> NoData]
  ELSE IF ~Present(st, key)
  THEN [err |-> TransportError({T_NoSuchKey}), body |-> NoData]
  ELSE [err |-> NoError, body |-> st[key]]

\* HeadObject: the error and the metadata.
HeadObject(st, key, fault) ==
  IF fault # NoError THEN [err |-> fault, head |-> NoData]
  ELSE IF ~Present(st, key)
  THEN [err |-> TransportError({T_NotFound}), head |-> NoData]
  ELSE [err |-> NoError,
        head |-> [ContentLength |-> Len(st[key][1]),
                  LastModified |-> "2025-01-01T00:00:00Z",
                  ETag |-> "etag-" \o st[key][1]]]

\* DeleteObject: succeeds for a key that is absent as for one that is present.
DeleteObject(st, key, fault) ==
  IF fault # NoError THEN [err |-> fault, store |-> st]
  ELSE [err |-> NoError,
        store |-> [k \in DOMAIN st |-> IF k = key THEN Absent ELSE st[k]]]

\* The elements of the sequence q.
Range(q) == { q[i] : i \in 1..Len(q) }

\* DeleteObjects: the error, the keys reported as failed, and the bucket
\* after the call: the keys not reported are deleted.
DeleteObjects(st, keys, fault, failed) ==
  IF fault # NoError THEN [err |-> fault, errors |-> << >>, store |-> st]
  ELSE [err |-> NoError,
        errors |-> failed,
        store |-> [k \in DOMAIN st |->
                     IF k \in Range(keys) \ Range(failed) THEN Absent ELSE st[k]]]

(***************************************************************************)
(* The operations of a Client.  Each operator is one run of the method:    *)
(* c the Client, st the bucket before the run, fault the way the transport *)
(* call fails (NoError: it answers from the bucket).  The result is what   *)
(* the method returns (ret), the transport calls it made, in order, and    *)
(* the bucket after the run.                                               *)
(***************************************************************************)
\* opts == nil, and the *UploadOptions of the callers
NoOpts == [nil |-> TRUE]
UploadOptionsInputs ==
  {NoOpts,
   [ContentType |-> "", Metadata |-> {}],
   [ContentType |-> "text/plain", Metadata |-> {<<"author", "go-common">>}]}

\* The s3.PutObjectInput of Upload and UploadFromReader.
PutObjectInput(c, key, body, opts) ==
  LET o == IF opts = NoOpts THEN [ContentType |-> "", Metadata |-> {}] ELSE opts
  IN [op |-> "PutObject",
      Bucket |-> c.bucketName,
      Key |-> key,
      Body |-> body,
      ContentType |-> IF o.ContentType # "" THEN <<o.ContentType>> ELSE << >>,
      Metadata |-> IF Cardinality(o.Metadata) > 0 THEN o.Metadata ELSE {}]

\* A call of the transport: what it was given and the error it returned.
Call(input, e) == [input |-> input, err |-> e]

\* A DeleteObjects call: errors holds the keys of the result's Errors.
BulkCall(input, e, failed) == [input |-> input, err |-> e, errors |-> failed]

\* A GetObject call: body is the body of the response.
BodyCall(input, e, body) == [input |-> input, err |-> e, body |-> body]

\* The run of an operation that returned before it called the transport.
Refused(st, r) == [ret |-> r, calls |-> << >>, store |-> st]

UploadRun(c, st, key, data, opts, fault) ==
  IF ValidateKey(key) # NoError
  THEN Refused(st, [op |-> "Upload", keys |-> <<key>>, err |-> ValidateKey(key)])
  ELSE
    LET input == PutObjectInput(c, key, data, opts)
        out == PutObject(st, key, data, fault)
    IN [ret |-> [op |-> "Upload", keys |-> <<key>>,
                 err |-> IF out.err # NoError
                         THEN WrapS3Error(ErrorfCtx("failed to upload object " \o key, out.err))
                         ELSE NoError],
        calls |-> <<Call(input, out.err)>>,
        store |-> out.store]

UploadFromReaderRun(c, st, key, reader, opts, fault) ==
  IF ValidateKey(key) # NoError
  THEN Refused(st, [op |-> "UploadFromReader", keys |-> <<key>>,
                    err |-> ValidateKey(key)])
  ELSE
    LET input == PutObjectInput(c, key, reader, opts)
        out == PutObject(st, key, reader, fault)
    IN [ret |-> [op |-> "UploadFromReader", keys |-> <<key>>,
                 err |-> IF out.err # NoError
                         THEN WrapS3Error(ErrorfCtx("failed to upload object " \o key, out.err))
                         ELSE NoError],
        calls |-> <<Call(input, out.err)>>,
        store |-> out.store]

\* The error reading the body of a response can fail with.
ReadError == [msg |-> "unexpected EOF", chain |-> {"io.ErrUnexpectedEOF"}]
ReadOutcomes == {NoError, ReadError}

\* Download that returns the error with its context, not normalized.
DownloadRun_NotNormalized(c, st, key, fault, readErr) ==
  IF ValidateKey(key) # NoError
  THEN Refused(st, [op |-> "Download", keys |-> <<key>>, data |-> NoData,
                    err |-> ValidateKey(key)])
  ELSE
    LET input == [op |-> "GetObject", Bucket |-> c.bucketName, Key |-> key]
        out == GetObject(st, key, fault)
    IN [ret |-> IF out.err # NoError
                THEN [op |-> "Download", keys |-> <<key>>, data |-> NoData,
                      err |-> ErrorfCtx("failed to download object " \o key, out.err)]
                ELSE IF readErr # NoError
                THEN [op |-> "Download", keys |-> <<key>>, data |-> NoData,
                      err |-> ErrorfCtx("failed to read object data " \o key, readErr)]
                ELSE [op |-> "Download", keys |-> <<key>>, data |-> out.body,
                      err |-> NoError],
        calls |-> <<BodyCall(input, out.err, out.body)>>,
        store |-> st]

\* readErr: the way io.ReadAll on the body fails.
DownloadRun(c, st, key, fault, readErr) ==
  IF ValidateKey(key) # NoError
  THEN Refused(st, [op |-> "Download", keys |-> <<key>>, data |-> NoData,
                    err |-> ValidateKey(key)])
  ELSE
    LET input == [op |-> "GetObject", Bucket |-> c.bucketName, Key |-> key]
        out == GetObject(st, key, fault)
    IN [ret |-> IF out.err # NoError
                THEN [op |-> "Download", keys |-> <<key>>, data |-> NoData,
                      err |-> WrapS3Error(ErrorfCtx("failed to download object " \o key, out.err))]
                ELSE IF readErr # NoError
                THEN [op |-> "Download", keys |-> <<key>>, data |-> NoData,
                      err |-> ErrorfCtx("failed to read object data " \o key, readErr)]
                ELSE [op |-> "Download", keys |-> <<key>>, data |-> out.body,
                      err |-> NoError],
        calls |-> <<BodyCall(input, out.err, out.body)>>,
        store |-> st]

\* copyErr: the way io.Copy to the writer fails; data is what the writer
\* has received when the method returns.
DownloadToWriterRun(c, st, key, fault, copyErr) ==
  IF ValidateKey(key) # NoError
  THEN Refused(st, [op |-> "DownloadToWriter", keys |-> <<key>>, data |-> NoData,
                    err |-> ValidateKey(key)])
  ELSE
    LET input == [op |-> "GetObject", Bucket |-> c.bucketName, Key |-> key]
        out == GetObject(st, key, fault)
    IN [ret |-> IF out.err # NoError
                THEN [op |-> "DownloadToWriter", keys |-> <<key>>, data |-> NoData,
                      err |-> WrapS3Error(ErrorfCtx("failed to download object " \o key, out.err))]
                ELSE IF copyErr # NoError
                THEN [op |-> "DownloadToWriter", keys |-> <<key>>, data |-> NoData,
                      err |-> ErrorfCtx("failed to copy object data " \o key, copyErr)]
                ELSE [op |-> "DownloadToWriter", keys |-> <<key>>, data |-> out.body,
                      err |-> NoError],
        calls |-> <<BodyCall(input, out.err, out.body)>>,
        store |-> st]

DeleteRun(c, st, key, fault) ==
  IF ValidateKey(key) # NoError
  THEN Refused(st, [op |-> "Delete", keys |-> <<key>>, err |-> ValidateKey(key)])
  ELSE
    LET input == [op |-> "DeleteObject", Bucket |-> c.bucketName, Key |-> key]
        out == DeleteObject(st, key, fault)
    IN [ret |-> [op |-> "Delete", keys |-> <<key>>,
                 err |-> IF out.err # NoError
                         THEN WrapS3Error(ErrorfCtx("failed to delete object " \o key, out.err))
                         ELSE NoError],
        calls |-> <<Call(input, out.err)>>,
        store |-> out.store]

\* strings.Join that puts "," between the elements, whatever sep is.
Join_CommaOnly(elems, sep) ==
  LET RECURSIVE J(_)
      J(i) == IF i > Len(elems) THEN ""
              ELSE IF i = Len(elems) THEN elems[i]
              ELSE elems[i] \o "," \o J(i + 1)
  IN J(1)

\* strings.Join(elems, sep)
Join(elems, sep) ==
  LET RECURSIVE J(_)
      J(i) == IF i > Len(elems) THEN ""
              ELSE IF i = Len(elems) THEN elems[i]
              ELSE elems[i] \o sep \o J(i + 1)
  IN J(1)

\* DeleteMultiple that has no early return for an empty list.
DeleteMultipleRun_NoEarlyReturn(c, st, keys, fault, failed) ==
  LET input == [op |-> "DeleteObjects", Bucket |-> c.bucketName, Keys |-> keys]
      out == DeleteObjects(st, keys, fault, failed)
  IN [ret |-> [op |-> "DeleteMultiple", keys |-> keys,
               err |-> IF out.err # NoError
                       THEN WrapS3Error(ErrorfCtx("failed to delete multiple objects", out.err))
                       ELSE IF Len(out.errors) > 0
                       THEN Errorf("failed to delete some objects: " \o Join(out.errors, ", "))
                       ELSE NoError],
      calls |-> <<BulkCall(input, out.err, out.errors)>>,
      store |-> out.store]

\* failed: the keys of result.Errors, in the order the transport reports them.
DeleteMultipleRun(c, st, keys, fault, failed) ==
  IF Len(keys) = 0
  THEN Refused(st, [op |-> "DeleteMultiple", keys |-> keys, err |-> NoError])
  ELSE
    LET input == [op |-> "DeleteObjects", Bucket |-> c.bucketName, Keys |-> keys]
        out == DeleteObjects(st, keys, fault, failed)
    IN [ret |-> [op |-> "DeleteMultiple", keys |-> keys,
                 err |-> IF out.err # NoError
                         THEN WrapS3Error(ErrorfCtx("failed to delete multiple objects", out.err))
                         ELSE IF Len(out.errors) > 0
                         THEN Errorf("failed to delete some objects: " \o Join(out.errors, ", "))
                         ELSE NoError],
        calls |-> <<BulkCall(input, out.err, out.errors)>>,
        store |-> out.store]

\* Exists that normalizes every error of the head call.
ExistsRun_NotFoundIsError(c, st, key, fault) ==
  IF ValidateKey(key) # NoError
  THEN Refused(st, [op |-> "Exists", keys |-> <<key>>, exists |-> FALSE,
                    err |-> ValidateKey(key)])
  ELSE
    LET input == [op |-> "HeadObject", Bucket |-> c.bucketName, Key |-> key]
        out == HeadObject(st, key, fault)
    IN [ret |-> IF out.err # NoError
                THEN [op |-> "Exists", keys |-> <<key>>, exists |-> FALSE,
                      err |-> WrapS3Error(ErrorfCtx("failed to check if object exists " \o key, out.err))]
                ELSE [op |-> "Exists", keys |-> <<key>>, exists |-> TRUE,
                      err |-> NoError],
        calls |-> <<Call(input, out.err)>>,
        store |-> st]

ExistsRun(c, st, key, fault) ==
  IF ValidateKey(key) # NoError
  THEN Refused(st, [op |-> "Exists", keys |-> <<key>>, exists |-> FALSE,
                    err |-> ValidateKey(key)])
  ELSE
    LET input == [op |-> "HeadObject", Bucket |-> c.bucketName, Key |-> key]
        out == HeadObject(st, key, fault)
    IN [ret |-> IF out.err # NoError
                THEN IF ErrorsAs(out.err, T_NotFound) \/ ErrorsAs(out.err, T_NoSuchKey)
                     THEN [op |-> "Exists", keys |-> <<key>>, exists |-> FALSE,
                           err |-> NoError]
                     ELSE [op |-> "Exists", keys |-> <<key>>, exists |-> FALSE,
                           err |-> WrapS3Error(ErrorfCtx("failed to check if object exists " \o key, out.err))]
                ELSE [op |-> "Exists", keys |-> <<key>>, exists |-> TRUE,
                      err |-> NoError],
        calls |-> <<Call(input, out.err)>>,
        store |-> st]

\* data is the *Object returned (NoData: nil).
GetObjectInfoRun(c, st, key, fault) ==
  IF ValidateKey(key) # NoError
  THEN Refused(st, [op |-> "GetObjectInfo", keys |-> <<key>>, data |-> NoData,
                    err |-> ValidateKey(key)])
  ELSE
    LET input == [op |-> "HeadObject", Bucket |-> c.bucketName, Key |-> key]
        out == HeadObject(st, key, fault)
    IN [ret |-> IF out.err # NoError
                THEN [op |-> "GetObjectInfo", keys |-> <<key>>, data |-> NoData,
                      err |-> WrapS3Error(ErrorfCtx("failed to get object info " \o key, out.err))]
                ELSE [op |-> "GetObjectInfo", keys |-> <<key>>,
                      data |-> <<[Key |-> key,
                                  Size |-> out.head.ContentLength,
                                  LastModified |-> out.head.LastModified,
                                  ETag |-> out.head.ETag]>>,
                      err |-> NoError],
        calls |-> <<Call(input, out.err)>>,
        store |-> st]

\* The presigner signs locally: it does not look at the bucket.
PresignGetObject(c, key, expires, fault) ==
  IF fault # NoError THEN [err |-> fault, URL |-> ""]
  ELSE [err |-> NoError, URL |-> "https://" \o c.bucketName \o "/" \o key \o "?X-Amz-Signature"]

\* GeneratePresignedURL that looks for the object first.
GeneratePresignedURLRun_HeadFirst(c, st, key, expiration, fault) ==
  IF ValidateKey(key) # NoError
  THEN Refused(st, [op |-> "GeneratePresignedURL", keys |-> <<key>>,
                    expiration |-> expiration, url |-> "",
                    err |-> ValidateKey(key)])
  ELSE
    LET head == [op |-> "HeadObject", Bucket |-> c.bucketName, Key |-> key]
        found == HeadObject(st, key, NoError)
        input == [op |-> "PresignGetObject", Bucket |-> c.bucketName, Key |-> key,
                  Expires |-> expiration]
        out == PresignGetObject(c, key, expiration, fault)
    IN IF found.err # NoError
       THEN [ret |-> [op |-> "GeneratePresignedURL", keys |-> <<key>>,
                      expiration |-> expiration, url |-> "",
                      err |-> WrapS3Error(ErrorfCtx("failed to generate presigned URL for " \o key, found.err))],
             calls |-> <<Call(head, found.err)>>,
             store |-> st]
       ELSE [ret |-> IF out.err # NoError
                     THEN [op |-> "GeneratePresignedURL", keys |-> <<key>>,
                           expiration |-> expiration, url |-> "",
                           err |-> WrapS3Error(ErrorfCtx("failed to generate presigned URL for " \o key, out.err))]
                     ELSE [op |-> "GeneratePresignedURL", keys |-> <<key>>,
                           expiration |-> expiration, url |-> out.URL,
                           err |-> NoError],
             calls |-> <<Call(head, found.err), Call(input, out.err)>>,
             store |-> st]

\* expiration: minutes
GeneratePresignedURLRun(c, st, key, expiration, fault) ==
  IF ValidateKey(key) # NoError
  THEN Refused(st, [op |-> "GeneratePresignedURL", keys |-> <<key>>,
                    expiration |-> expiration, url |-> "",
                    err |-> ValidateKey(key)])
  ELSE
    LET input == [op |-> "PresignGetObject", Bucket |-> c.bucketName, Key |-> key,
                  Expires |-> expiration]
        out == PresignGetObject(c, key, expiration, fault)
    IN [ret |-> IF out.err # NoError
                THEN [op |-> "GeneratePresignedURL", keys |-> <<key>>,
                      expiration |-> expiration, url |-> "",
                      err |-> WrapS3Error(ErrorfCtx("failed to generate presigned URL for " \o key, out.err))]
                ELSE [op |-> "GeneratePresignedURL", keys |-> <<key>>,
                      expiration |-> expiration, url |-> out.URL,
                      err |-> NoError],
        calls |-> <<Call(input, out.err)>>,
        store |-> st]

(***************************************************************************)
(* List.  The provider holds the objects of the bucket in the order it     *)
(* emits them and answers a ListObjectsV2 request with one page: up to     *)
(* pageSize of the objects that match the prefix, from the continuation    *)
(* token on, and the token of the next page when objects remain.  A        *)
(* provider that loops answers the last page with a token that starts      *)
(* over: its pagination has no end.  The paginator of the SDK keeps        *)
(* firstPage and nextToken between the fetches.                            *)
(***************************************************************************)
MaxObjects == 5
MaxPageSize == 2

\* At most MaxObjects fetches list a bucket whose pagination ends; the
\* model stops a List that fetches more.
MaxFetches == MaxObjects + 1

\* The keys of the objects the provider holds, and what is left of a key
\* after a prefix of it.
ListKeys == {"a/1", "a/2", "b/1", "b/2", "c"}
Rests == ListKeys \cup {"", "1", "2", "/1", "/2"}
Prefixes == {"", "a/", "b", "x"}

\* strings.HasPrefix(key, prefix), which the provider applies
KeyHasPrefix(key, prefix) == \E r \in Rests : key = prefix \o r

\* An object as the provider emits it (types.Object).
ProviderObject(key) ==
  [Key |-> key,
   Size |-> Len(key),
   LastModified |-> "2025-01-01T00:00:00Z",
   ETag |-> "etag-" \o key,
   StorageClass |-> "STANDARD"]

\* The Object List makes of it.
ToObject(obj) ==
  [Key |-> obj.Key,
   Size |-> obj.Size,
   LastModified |-> obj.LastModified,
   ETag |-> obj.ETag]

\* No continuation token, no prefix: nil.
NoToken == << >>
NoPrefix == << >>

\* The objects of q that satisfy the prefix filter p (NoPrefix: all).
Matching(q, p) ==
  LET RECURSIVE M(_)
      M(i) == IF i > Len(q) THEN << >>
              ELSE IF p = NoPrefix \/ KeyHasPrefix(q[i].Key, p[1])
              THEN <<q[i]>> \o M(i + 1)
              ELSE M(i + 1)
  IN M(1)

\* Min of two numbers
Min(a, b) == IF a < b THEN a ELSE b

\* ListObjectsV2: the error, the page's Contents and NextContinuationToken
\* (NoToken: the page is not truncated).
ListObjectsV2(prov, input, fault) ==
  IF fault # NoError
  THEN [err |-> fault, Contents |-> << >>, NextContinuationToken |-> NoToken]
  ELSE
    LET all == Matching(prov.contents, input.Prefix)
        first == IF input.ContinuationToken = NoToken THEN 1
                 ELSE input.ContinuationToken[1]
        last == Min(first + prov.pageSize - 1, Len(all))
    IN [err |-> NoError,
        Contents |-> SubSeq(all, first, last),
        NextContinuationToken |->
          IF last < Len(all) THEN <<last + 1>>
          ELSE IF prov.loops THEN <<1>>
          ELSE NoToken]

\* A paginator that always has more pages.
HasMorePages_Always(pg) == TRUE

\* paginator.HasMorePages()
HasMorePages(pg) == pg.firstPage \/ pg.nextToken # NoToken

\* The Objects of a page, in the page's order.
PageObjects(contents) == [i \in 1..Len(contents) |-> ToObject(contents[i])]

\* The local state of a List that has not been called.
NoList == [pc |-> "idle"]

\* The local state of List when it enters its loop.
ListEntry(prefix) ==
  [pc |-> "loop", prefix |-> prefix, objects |-> << >>,
   firstPage |-> TRUE, nextToken |-> NoToken]

\* A ListObjectsV2 call: its input, the error and the page it returned.
PageCall(input, out) ==
  [input |-> input, err |-> out.err, Contents |-> out.Contents,
   NextContinuationToken |-> out.NextContinuationToken]

\* List that returns the objects it has fetched when a fetch fails.
ListFetch_KeepsObjects(c, prov, l, fault) ==
  LET input == [op |-> "ListObjectsV2",
                Bucket |-> c.bucketName,
                Prefix |-> IF l.prefix # "" THEN <<l.prefix>> ELSE NoPrefix,
                ContinuationToken |-> l.nextToken]
      out == ListObjectsV2(prov, input, fault)
      after == [l EXCEPT !.objects = l.objects \o PageObjects(out.Contents),
                         !.firstPage = FALSE,
                         !.nextToken = out.NextContinuationToken]
  IN IF out.err # NoError
     THEN [list |-> [l EXCEPT !.pc = "done"],
           call |-> PageCall(input, out),
           ret |-> [op |-> "List", prefix |-> l.prefix, objects |-> l.objects,
                    err |-> WrapS3Error(ErrorfCtx("failed to list objects", out.err))]]
     ELSE IF HasMorePages(after)
     THEN [list |-> after, call |-> PageCall(input, out), ret |-> [nil |-> TRUE]]
     ELSE [list |-> [after EXCEPT !.pc = "done"],
           call |-> PageCall(input, out),
           ret |-> [op |-> "List", prefix |-> l.prefix, objects |-> after.objects,
                    err |-> NoError]]

\* List that keeps the first page only.
ListFetch_FirstPageOnly(c, prov, l, fault) ==
  LET input == [op |-> "ListObjectsV2",
                Bucket |-> c.bucketName,
                Prefix |-> IF l.prefix # "" THEN <<l.prefix>> ELSE NoPrefix,
                ContinuationToken |-> l.nextToken]
      out == ListObjectsV2(prov, input, fault)
      after == [l EXCEPT !.objects = IF l.firstPage THEN PageObjects(out.Contents)
                                     ELSE l.objects,
                         !.firstPage = FALSE,
                         !.nextToken = out.NextContinuationToken]
  IN IF out.err # NoError
     THEN [list |-> [l EXCEPT !.pc = "done"],
           call |-> PageCall(input, out),
           ret |-> [op |-> "List", prefix |-> l.prefix, objects |-> << >>,
                    err |-> WrapS3Error(ErrorfCtx("failed to list objects", out.err))]]
     ELSE IF HasMorePages(after)
     THEN [list |-> after, call |-> PageCall(input, out), ret |-> [nil |-> TRUE]]
     ELSE [list |-> [after EXCEPT !.pc = "done"],
           call |-> PageCall(input, out),
           ret |-> [op |-> "List", prefix |-> l.prefix, objects |-> after.objects,
                    err |-> NoError]]

\* One turn of the loop of List, from paginator.NextPage to the next test
\* of HasMorePages, and the return when the fetch failed or no page is
\* left.  l: the local state; the result is the local state after the turn,
\* the call made, and what List returned (nil record: it goes on).
ListFetch(c, prov, l, fault) ==
  LET input == [op |-> "ListObjectsV2",
                Bucket |-> c.bucketName,
                Prefix |-> IF l.prefix # "" THEN <<l.prefix>> ELSE NoPrefix,
                ContinuationToken |-> l.nextToken]
      out == ListObjectsV2(prov, input, fault)
      after == [l EXCEPT !.objects = l.objects \o PageObjects(out.Contents),
                         !.firstPage = FALSE,
                         !.nextToken = out.NextContinuationToken]
  IN IF out.err # NoError
     THEN [list |-> [l EXCEPT !.pc = "done"],
           call |-> PageCall(input, out),
           ret |-> [op |-> "List", prefix |-> l.prefix, objects |-> << >>,
                    err |-> WrapS3Error(ErrorfCtx("failed to list objects", out.err))]]
     ELSE IF HasMorePages(after)
     THEN [list |-> after, call |-> PageCall(input, out), ret |-> [nil |-> TRUE]]
     ELSE [list |-> [after EXCEPT !.pc = "done"],
           call |-> PageCall(input, out),
           ret |-> [op |-> "List", prefix |-> l.prefix, objects |-> after.objects,
                    err |-> NoError]]

(***************************************************************************)
(* Callers that use one Client at the same time.  A caller makes a         *)
(* request; each transport call of its operation, with what the operation  *)
(* does up to its next call or its return, is one step, and the steps of   *)
(* the callers interleave.  The transport serves the calls one at a time   *)
(* on the bucket.                                                          *)
(***************************************************************************)
\* The keys and the failure the callers' requests are made of.
ConcKeys == {"a", "b"}
ConcOutcomes == {NoError, TransportError({T_Canceled})}

\* The requests of a caller.
Requests ==
  { [op |-> "Upload", key |-> k, data |-> d] : k \in ConcKeys, d \in {"Hello, S3!", ""} }
    \cup { [op |-> o, key |-> k] : o \in {"Download", "Delete", "Exists"}, k \in ConcKeys }
    \cup { [op |-> "List", prefix |-> ""] }
NoRequest == [nil |-> TRUE]

\* What List is answered from when the bucket is st: the objects the bucket
\* holds, by key, one to a page.
KeyOrder == <<"a", "b", "c">>
ProviderOf(st) ==
  [contents |-> [i \in 1..Len(SelectSeq(KeyOrder, LAMBDA k : Present(st, k))) |->
                   ProviderObject(SelectSeq(KeyOrder, LAMBDA k : Present(st, k))[i])],
   pageSize |-> 1,
   loops |-> FALSE]

\* A caller that has made no request, and one that has just made req.
IdleCaller ==
  [pc |-> "idle", req |-> NoRequest, list |-> NoList, calls |-> << >>,
   ret |-> [nil |-> TRUE], overlapped |-> FALSE]
Requesting(req) ==
  [pc |-> "running", req |-> req,
   list |-> IF req.op = "List" THEN ListEntry(req.prefix) ELSE NoList,
   calls |-> << >>, ret |-> [nil |-> TRUE], overlapped |-> FALSE]

\* The run of the operation of req that is not List.
Invoke(c, st, req, fault) ==
  IF req.op = "Upload" THEN UploadRun(c, st, req.key, req.data, NoOpts, fault)
  ELSE IF req.op = "Download" THEN DownloadRun(c, st, req.key, fault, NoError)
  ELSE IF req.op = "Delete" THEN DeleteRun(c, st, req.key, fault)
  ELSE ExistsRun(c, st, req.key, fault)

\* A step that leaves the key of the request in the Client's bucketName.
ConcStep_WritesClient(c, st, pr, fault) ==
  IF pr.req.op = "List"
  THEN LET r == ListFetch(c, ProviderOf(st), pr.list, fault)
       IN [proc |-> [pr EXCEPT !.pc = IF r.list.pc = "done" THEN "returned" ELSE "running",
                               !.list = r.list,
                               !.calls = Append(pr.calls, r.call),
                               !.ret = r.ret],
           store |-> st,
           client |-> c]
  ELSE LET r == Invoke(c, st, pr.req, fault)
       IN [proc |-> [pr EXCEPT !.pc = "returned", !.calls = r.calls, !.ret = r.ret],
           store |-> r.store,
           client |-> [c EXCEPT !.bucketName = pr.req.key]]

\* One step of the caller pr on the Client c and the bucket st: the
\* caller, the bucket and the Client after it.  No method assigns to a
\* field of its receiver.
ConcStep(c, st, pr, fault) ==
  IF pr.req.op = "List"
  THEN LET r == ListFetch(c, ProviderOf(st), pr.list, fault)
       IN [proc |-> [pr EXCEPT !.pc = IF r.list.pc = "done" THEN "returned" ELSE "running",
                               !.list = r.list,
                               !.calls = Append(pr.calls, r.call),
                               !.ret = r.ret],
           store |-> st,
           client |-> c]
  ELSE LET r == Invoke(c, st, pr.req, fault)
       IN [proc |-> [pr EXCEPT !.pc = "returned", !.calls = r.calls, !.ret = r.ret],
           store |-> r.store,
           client |-> c]

\* Another caller has taken a step while the caller pr was running.
Overlap(pr) == IF pr.pc = "running" THEN [pr EXCEPT !.overlapped = TRUE] ELSE pr

(***************************************************************************)
(* The state.                                                              *)
(*   cfg     the caller's Config object (NoConfig: the caller holds nil);  *)
(*           a Client's config field points to this same object            *)
(*   client  the Client NewClient returned: its transport's settings and   *)
(*           bucketName (NoClient: none)                                   *)
(*   err     the error NewClient returned                                  *)
(*   log     what was written to the log                                   *)
(*   sdk     the SDK calls made                                            *)
(*   phase   "new": cfg is as the caller built it; "resolved":             *)
(*           autoConfigureForProvider has run on it; "validated":          *)
(*           ValidateConfig has run on it; "client", "failed": NewClient   *)
(*           has returned a client, an error; "resolved2", "client2",      *)
(*           "failed2": the resolver, NewClient has run a second time on   *)
(*           the same Config object                                        *)
(* History, for stating the properties:                                    *)
(*   cfg0        cfg as the caller built it                                *)
(*   resolverIn  cfg as autoConfigureForProvider received it               *)
(*   detects     the number of calls of detectProviderType                 *)
(* The bucket and the operations of a Client:                              *)
(*   store   the objects of the bucket: for each key its content, if any   *)
(*   calls   the calls the running operation made to the transport         *)
(*   ret     what the operation returned (NoRet: none has run)             *)
(* List:                                                                   *)
(*   provider  the objects the provider holds, in the order it emits       *)
(*             them, its page size, and whether its pagination loops       *)
(*   list      the local state of the running List: its position (pc),     *)
(*             prefix, the objects appended so far, and the paginator's    *)
(*             firstPage and nextToken                                     *)
(* Callers at the same time:                                               *)
(*   procs   for each caller its position, request, the local state of     *)
(*           its List, the transport calls it made, what it was returned,  *)
(*           and whether another caller took a step while it was running   *)
(***************************************************************************)
VARIABLES cfg, client, err, log, sdk, phase, cfg0, resolverIn, detects,
          store, calls, ret, provider, list, procs

vars ==
  <<cfg, client, err, log, sdk, phase, cfg0, resolverIn, detects,
    store, calls, ret, provider, list, procs>>

\* The variables of the construction, of the bucket and the operations.
ctorVars == <<cfg, client, err, log, sdk, phase, cfg0, resolverIn, detects>>
opVars == <<store, calls, ret>>
listVars == <<provider, list>>

\* The callers of the specification of concurrent use.
Callers == {1, 2}
NoCallers == [p \in Callers |-> IdleCaller]

\* No operation has returned.
NoRet == [nil |-> TRUE]

\* A provider with nothing to list.
NoProvider == [contents |-> << >>, pageSize |-> 1, loops |-> FALSE]

\* The keys of the objects a bucket holds in the model, and a bucket's states.
ObjectKeys == {"a", "b", "c"}
Stores == [ObjectKeys -> {Absent, Content("Hello, S3!")}]
EmptyStore == [k \in ObjectKeys |-> Absent]

Init ==
  /\ \/ cfg \in ValidatedConfigs
     \/ cfg \in UnvalidatedConfigs
     \/ cfg = NoConfig
  /\ cfg0 = cfg
  /\ client = NoClient
  /\ err = NoError
  /\ log = << >>
  /\ sdk = << >>
  /\ phase = "new"
  /\ resolverIn = NoConfig
  /\ detects = 0
  /\ store = EmptyStore
  /\ calls = << >>
  /\ ret = NoRet
  /\ provider = NoProvider
  /\ list = NoList
  /\ procs = NoCallers

\* detectProviderType is called once by autoConfigureForProvider when the
\* Config it receives has no Provider.
DetectCalls(rIn) == IF rIn # NoConfig /\ rIn.Provider = "" THEN 1 ELSE 0

\* The resolver applied to the caller's Config.
Resolve ==
  /\ phase = "new"
  /\ cfg # NoConfig
  /\ cfg' = autoConfigureForProvider(cfg)
  /\ resolverIn' = cfg
  /\ detects' = detects + DetectCalls(cfg)
  /\ phase' = "resolved"
  /\ UNCHANGED <<client, err, log, sdk, cfg0>>
  /\ UNCHANGED opVars
  /\ UNCHANGED listVars
  /\ UNCHANGED procs

\* err := ValidateConfig(cfg)
ValidateConfigCall ==
  /\ phase = "new"
  /\ cfg' = ValidateConfig(cfg).cfg
  /\ err' = ValidateConfig(cfg).err
  /\ phase' = "validated"
  /\ UNCHANGED <<client, log, sdk, cfg0, resolverIn, detects>>
  /\ UNCHANGED opVars
  /\ UNCHANGED listVars
  /\ UNCHANGED procs

\* client, err := NewClient(cfg)
NewClient ==
  /\ phase = "new"
  /\ \E loadFails \in BOOLEAN :
       LET r == NewClientRun(cfg, loadFails)
       IN /\ cfg' = r.cfg
          /\ client' = r.client
          /\ err' = r.err
          /\ log' = log \o r.log
          /\ sdk' = sdk \o r.sdk
          /\ resolverIn' = r.resolverIn
          /\ detects' = detects + DetectCalls(r.resolverIn)
          /\ phase' = IF r.err = NoError THEN "client" ELSE "failed"
  /\ UNCHANGED cfg0
  /\ UNCHANGED opVars
  /\ UNCHANGED listVars
  /\ UNCHANGED procs

\* The resolver applied once more, to the Config it has resolved.
ResolveAgain ==
  /\ phase = "resolved"
  /\ cfg' = autoConfigureForProvider(cfg)
  /\ detects' = detects + DetectCalls(cfg)
  /\ phase' = "resolved2"
  /\ UNCHANGED <<client, err, log, sdk, cfg0, resolverIn>>
  /\ UNCHANGED opVars
  /\ UNCHANGED listVars
  /\ UNCHANGED procs

\* client, err := NewClient(cfg) once more, on the Config object of the
\* client the first call returned.
NewClientAgain ==
  /\ phase = "client"
  /\ \E loadFails \in BOOLEAN :
       LET r == NewClientRun(cfg, loadFails)
       IN /\ cfg' = r.cfg
          /\ client' = r.client
          /\ err' = r.err
          /\ log' = log \o r.log
          /\ sdk' = sdk \o r.sdk
          /\ detects' = detects + DetectCalls(r.resolverIn)
          /\ phase' = IF r.err = NoError THEN "client2" ELSE "failed2"
  /\ UNCHANGED <<cfg0, resolverIn>>
  /\ UNCHANGED opVars
  /\ UNCHANGED listVars
  /\ UNCHANGED procs

Next == Resolve \/ ValidateConfigCall \/ NewClient \/ ResolveAgain \/ NewClientAgain

Spec == Init /\ [][Next]_vars

(***************************************************************************)
(* The operations of a constructed Client: a second specification.  A      *)
(* caller holds a Client that NewClient returned and runs one operation on *)
(* a bucket in any state, or calls ValidateKey or WrapS3Error.             *)
(***************************************************************************)
MaxKeys == 3
MaxChain == 2
MaxWraps == 3

\* The Configs the Clients of this specification are built from.
ClientConfigs ==
  {NewConfig(ProviderMinIO, "", "minioadmin", "minioadmin",
             S_http \o S_localhost \o S_port9000, "b"),
   NewConfig(ProviderAWS, "us-east-1", "minioadmin", "minioadmin", << >>, "b")}

\* The inputs of the callers.
OpKeys == ObjectKeys \cup {""}
KeyStrings == OpKeys \cup {" ", "test/hello.txt"}
DataInputs == {"Hello, S3!", ""}
KeyLists == UNION { [1..n -> OpKeys] : n \in 0..MaxKeys }
Expirations == {0, 15, 60}

\* What the transport can report as failed for a request with these keys:
\* some of the keys, each once, in any order.
FailedLists(keys) ==
  { q \in UNION { [1..n -> Range(keys)] : n \in 0..Cardinality(Range(keys)) } :
      \A i, j \in 1..Len(q) : i # j => q[i] # q[j] }

\* The errors WrapS3Error is called with: nil, errors with up to MaxChain
\* transport types or sentinels in their chain, bare and with the context
\* of an operation.
ChainTypes ==
  TransportTypes \cup ErrObjectNotFound.chain \cup ErrBucketNotFound.chain
    \cup ErrAccessDenied.chain \cup ErrEmptyKey.chain
ErrorChains == { ts \in SUBSET ChainTypes : Cardinality(ts) <= MaxChain }
ErrorInputs ==
  {NoError}
    \cup { TransportError(ts) : ts \in ErrorChains }
    \cup { ErrorfCtx("failed to download object a", TransportError(ts)) :
             ts \in ErrorChains }

InitOps ==
  /\ cfg0 \in ClientConfigs
  /\ cfg = NewClientRun(cfg0, FALSE).cfg
  /\ client = NewClientRun(cfg0, FALSE).client
  /\ err = NewClientRun(cfg0, FALSE).err
  /\ log = NewClientRun(cfg0, FALSE).log
  /\ sdk = NewClientRun(cfg0, FALSE).sdk
  /\ resolverIn = NewClientRun(cfg0, FALSE).resolverIn
  /\ detects = DetectCalls(NewClientRun(cfg0, FALSE).resolverIn)
  /\ phase = "client"
  /\ store \in Stores
  /\ calls = << >>
  /\ ret = NoRet
  /\ provider = NoProvider
  /\ list = NoList
  /\ procs = NoCallers

\* A caller may run an operation: it holds a Client and none has run.
Idle == phase = "client" /\ client # NoClient /\ ret = NoRet

\* The run r of an operation takes place.
Ran(r) ==
  /\ ret' = r.ret
  /\ calls' = r.calls
  /\ store' = r.store
  /\ UNCHANGED ctorVars
  /\ UNCHANGED listVars
  /\ UNCHANGED procs

\* err := ValidateKey(key)
ValidateKeyCall ==
  /\ ret = NoRet
  /\ \E key \in KeyStrings :
       ret' = [op |-> "ValidateKey", keys |-> <<key>>, err |-> ValidateKey(key)]
  /\ UNCHANGED <<store, calls>>
  /\ UNCHANGED ctorVars
  /\ UNCHANGED listVars
  /\ UNCHANGED procs

\* err := WrapS3Error(arg), on an error of ErrorInputs or on the error the
\* call of WrapS3Error before it returned; n counts the calls.
WrapS3ErrorCall ==
  /\ \E arg \in (IF ret = NoRet THEN ErrorInputs
                 ELSE IF ret.op = "WrapS3Error" /\ ret.n < MaxWraps THEN {ret.err}
                 ELSE {}) :
       ret' = [op |-> "WrapS3Error", arg |-> arg, err |-> WrapS3Error(arg),
               n |-> IF ret = NoRet THEN 1 ELSE ret.n + 1]
  /\ UNCHANGED <<store, calls>>
  /\ UNCHANGED ctorVars
  /\ UNCHANGED listVars
  /\ UNCHANGED procs

Upload ==
  /\ Idle
  /\ \E key \in OpKeys, data \in DataInputs, opts \in UploadOptionsInputs,
        fault \in Outcomes :
       Ran(UploadRun(client, store, key, data, opts, fault))

UploadFromReader ==
  /\ Idle
  /\ \E key \in OpKeys, reader \in DataInputs, opts \in UploadOptionsInputs,
        fault \in Outcomes :
       Ran(UploadFromReaderRun(client, store, key, reader, opts, fault))

Download ==
  /\ Idle
  /\ \E key \in OpKeys, fault \in Outcomes, readErr \in ReadOutcomes :
       Ran(DownloadRun(client, store, key, fault, readErr))

DownloadToWriter ==
  /\ Idle
  /\ \E key \in OpKeys, fault \in Outcomes, copyErr \in ReadOutcomes :
       Ran(DownloadToWriterRun(client, store, key, fault, copyErr))

Delete ==
  /\ Idle
  /\ \E key \in OpKeys, fault \in Outcomes :
       Ran(DeleteRun(client, store, key, fault))

DeleteMultiple ==
  /\ Idle
  /\ \E keys \in KeyLists, fault \in Outcomes :
       \E failed \in FailedLists(keys) :
         Ran(DeleteMultipleRun(client, store, keys, fault, failed))

Exists ==
  /\ Idle
  /\ \E key \in OpKeys, fault \in Outcomes :
       Ran(ExistsRun(client, store, key, fault))

GetObjectInfo ==
  /\ Idle
  /\ \E key \in OpKeys, fault \in Outcomes :
       Ran(GetObjectInfoRun(client, store, key, fault))

GeneratePresignedURL ==
  /\ Idle
  /\ \E key \in OpKeys, expiration \in Expirations, fault \in Outcomes :
       Ran(GeneratePresignedURLRun(client, store, key, expiration, fault))

NextOps ==
  \/ ValidateKeyCall
  \/ WrapS3ErrorCall
  \/ Upload
  \/ UploadFromReader
  \/ Download
  \/ DownloadToWriter
  \/ Delete
  \/ DeleteMultiple
  \/ Exists
  \/ GetObjectInfo
  \/ GeneratePresignedURL

SpecOps == InitOps /\ [][NextOps]_vars

(***************************************************************************)
(* List on a constructed Client: a third specification.  A caller holds a  *)
(* Client and calls List once; each step is one page fetch with what List  *)
(* does up to the next one.                                                *)
(***************************************************************************)
\* The sequences of up to MaxObjects distinct keys.
KeyOrders ==
  { q \in UNION { [1..n -> ListKeys] : n \in 0..Min(MaxObjects, Cardinality(ListKeys)) } :
      \A i, j \in 1..Len(q) : i # j => q[i] # q[j] }

Providers ==
  { [contents |-> [i \in 1..Len(q) |-> ProviderObject(q[i])],
     pageSize |-> n, loops |-> b] :
      q \in KeyOrders, n \in 1..MaxPageSize, b \in BOOLEAN }

InitList ==
  /\ cfg0 \in ClientConfigs
  /\ cfg = NewClientRun(cfg0, FALSE).cfg
  /\ client = NewClientRun(cfg0, FALSE).client
  /\ err = NewClientRun(cfg0, FALSE).err
  /\ log = NewClientRun(cfg0, FALSE).log
  /\ sdk = NewClientRun(cfg0, FALSE).sdk
  /\ resolverIn = NewClientRun(cfg0, FALSE).resolverIn
  /\ detects = DetectCalls(NewClientRun(cfg0, FALSE).resolverIn)
  /\ phase = "client"
  /\ store = EmptyStore
  /\ calls = << >>
  /\ ret = NoRet
  /\ provider \in Providers
  /\ list = NoList
  /\ procs = NoCallers

\* The turn r of List's loop takes place.
Fetched(r) ==
  /\ list' = r.list
  /\ calls' = Append(calls, r.call)
  /\ ret' = r.ret
  /\ UNCHANGED <<store, provider, procs>>
  /\ UNCHANGED ctorVars

\* objects, err := client.List(ctx, prefix): the call and the first fetch.
List ==
  /\ Idle
  /\ list.pc = "idle"
  /\ \E prefix \in Prefixes, fault \in Outcomes :
       Fetched(ListFetch(client, provider, ListEntry(prefix), fault))

\* A further turn of the loop.
ListNextPage ==
  /\ list.pc = "loop"
  /\ Len(calls) < MaxFetches
  /\ \E fault \in Outcomes :
       Fetched(ListFetch(client, provider, list, fault))

NextList == List \/ ListNextPage

SpecList == InitList /\ [][NextList]_vars

\* List runs on: a goroutine that can take its next step takes it.  The
\* fair specification has one Client and the providers that emit their
\* objects in one order.
EmitOrder == <<"c", "a/1", "b/1", "a/2", "b/2">>
ProvidersInOrder ==
  { [contents |-> [i \in 1..n |-> ProviderObject(EmitOrder[i])],
     pageSize |-> k, loops |-> b] :
      n \in 0..Min(MaxObjects, Len(EmitOrder)), k \in 1..MaxPageSize, b \in BOOLEAN }

InitListFair ==
  /\ InitList
  /\ cfg0.Provider = ProviderMinIO
  /\ provider \in ProvidersInOrder

SpecListFair == InitListFair /\ [][NextList]_vars /\ WF_vars(NextList)

(***************************************************************************)
(* Concurrent use of one Client: a fourth specification.                   *)
(***************************************************************************)
InitConc ==
  /\ cfg0 \in ClientConfigs
  /\ cfg = NewClientRun(cfg0, FALSE).cfg
  /\ client = NewClientRun(cfg0, FALSE).client
  /\ err = NewClientRun(cfg0, FALSE).err
  /\ log = NewClientRun(cfg0, FALSE).log
  /\ sdk = NewClientRun(cfg0, FALSE).sdk
  /\ resolverIn = NewClientRun(cfg0, FALSE).resolverIn
  /\ detects = DetectCalls(NewClientRun(cfg0, FALSE).resolverIn)
  /\ phase = "client"
  /\ store \in Stores
  /\ calls = << >>
  /\ ret = NoRet
  /\ provider = NoProvider
  /\ list = NoList
  /\ procs = NoCallers

\* The caller p makes a request.
Request(p) ==
  /\ phase = "client"
  /\ procs[p].pc = "idle"
  /\ \E req \in Requests : procs' = [procs EXCEPT ![p] = Requesting(req)]
  /\ UNCHANGED <<cfg, err, log, sdk, phase, cfg0, resolverIn, detects, client>>
  /\ UNCHANGED opVars
  /\ UNCHANGED listVars

\* The operation of the caller p takes a step.
Step(p) ==
  /\ procs[p].pc = "running"
  /\ \E fault \in ConcOutcomes :
       LET r == ConcStep(client, store, procs[p], fault)
       IN /\ procs' = [q \in Callers |-> IF q = p THEN r.proc ELSE Overlap(procs[q])]
          /\ store' = r.store
          /\ client' = r.client
  /\ UNCHANGED <<cfg, err, log, sdk, phase, cfg0, resolverIn, detects>>
  /\ UNCHANGED <<calls, ret>>
  /\ UNCHANGED listVars

\* The caller p has its result and may make its next request.
Restart(p) ==
  /\ procs[p].pc = "returned"
  /\ procs' = [procs EXCEPT ![p] = IdleCaller]
  /\ UNCHANGED <<cfg, err, log, sdk, phase, cfg0, resolverIn, detects, client>>
  /\ UNCHANGED opVars
  /\ UNCHANGED listVars

NextConc == \E p \in Callers : Request(p) \/ Step(p) \/ Restart(p)

SpecConc == InitConc /\ [][NextConc]_vars

(***************************************************************************)
(* Properties.                                                             *)
(***************************************************************************)
\* autoConfigureForProvider has run: cfg is the Config it resolved.
Resolved == resolverIn # NoConfig

\* NewClient has returned a client.
Constructed == phase = "client"

\* The endpoint patterns that stand for MinIO.
MinIOPatterns == {S_localhost, S_loopback, S_port9000, S_minio}

\* s contains substr whatever the case of the letters of s.
ContainsFold(s, substr) == Contains(ToLower(s), substr)

\* The endpoint has the pattern: as it is written, or in any case (fold).
HasPattern(endpoint, pat, fold) ==
  IF fold THEN ContainsFold(endpoint, pat) ELSE Contains(endpoint, pat)

\* The precedence of provider detection.
DetectionPrecedence(endpoint, fold) ==
  IF endpoint = << >> THEN ProviderAWS
  ELSE IF HasPattern(endpoint, S_dospaces, fold) THEN ProviderDigitalOcean
  ELSE IF \E pat \in MinIOPatterns : HasPattern(endpoint, pat, fold)
  THEN ProviderMinIO
  ELSE ProviderCustom

\* C1, as stated: with Provider unset the resolver writes to cfg.Provider the
\* provider the precedence aws (empty endpoint), digitalocean, minio, custom
\* gives for the endpoint, the endpoint containing a pattern as it is written;
\* the value is one of the four providers.
C1_DetectionAsWritten ==
  (Resolved /\ resolverIn.Provider = "") =>
    /\ cfg.Provider = DetectionPrecedence(resolverIn.Endpoint, FALSE)
    /\ cfg.Provider \in ValidProviders

\* C1, amended: the same precedence, the endpoint containing a pattern
\* whatever the case of its letters (it is lower-cased before the matching).
C1_DetectionPrecedence ==
  (Resolved /\ resolverIn.Provider = "") =>
    /\ cfg.Provider = DetectionPrecedence(resolverIn.Endpoint, TRUE)
    /\ cfg.Provider \in ValidProviders

\* Provider unset, the endpoint HTTP://MinIO.cdn.nspublic.xyz: minio.
C1_Witness ==
  /\ Resolved
  /\ resolverIn.Provider = ""
  /\ resolverIn.Endpoint = S_HTTP \o S_MinIO \o S_dot \o S_cdn
  /\ cfg.Provider = ProviderMinIO

\* C2, as stated: Provider unset and an endpoint containing minio resolve to
\* provider minio, path-style addressing and region us-east-1, whatever else
\* the endpoint contains and whatever region, TLS flag and addressing style
\* the caller gave.
C2_MinIOEndpointAsWritten ==
  (Resolved /\ resolverIn.Provider = "" /\ Contains(resolverIn.Endpoint, S_minio)) =>
    /\ cfg.Provider = ProviderMinIO
    /\ cfg.UsePathStyle = BoolPtr(TRUE)
    /\ cfg.Region = "us-east-1"

\* C2, amended: the same, for an endpoint that contains minio and does not
\* contain digitaloceanspaces.com in any case of its letters.
C2_MinIOEndpoint ==
  (/\ Resolved
   /\ resolverIn.Provider = ""
   /\ Contains(resolverIn.Endpoint, S_minio)
   /\ ~ContainsFold(resolverIn.Endpoint, S_dospaces)) =>
    /\ cfg.Provider = ProviderMinIO
    /\ cfg.UsePathStyle = BoolPtr(TRUE)
    /\ cfg.Region = "us-east-1"

\* Provider unset, https://minio.cdn.nspublic.xyz, region eu-west-1 and
\* virtual-hosted addressing asked for: minio, us-east-1, path-style.
C2_Witness ==
  /\ Resolved
  /\ resolverIn.Provider = ""
  /\ resolverIn.Endpoint = S_https \o S_minio \o S_dot \o S_cdn
  /\ resolverIn.Region = "eu-west-1"
  /\ resolverIn.UsePathStyle = BoolPtr(FALSE)
  /\ cfg.Provider = ProviderMinIO
  /\ cfg.UsePathStyle = BoolPtr(TRUE)
  /\ cfg.Region = "us-east-1"

\* The rules of the resolver for provider p, on the Config `given` it received.
RegionFor(p, given) ==
  IF p = ProviderMinIO THEN "us-east-1"
  ELSE IF given.Region # "" THEN given.Region
  ELSE IF p = ProviderDigitalOcean THEN "nyc3"
  ELSE "us-east-1"

UseSSLFor(p, given) ==
  IF p \in {ProviderMinIO, ProviderCustom} /\ HasPrefix(ToLower(given.Endpoint), S_http)
  THEN FALSE
  ELSE IF p \in {ProviderMinIO, ProviderCustom} /\ HasPrefix(ToLower(given.Endpoint), S_https)
  THEN TRUE
  ELSE given.UseSSL

UsePathStyleFor(p, given) ==
  IF p \in {ProviderMinIO, ProviderCustom} THEN BoolPtr(TRUE)
  ELSE IF given.UsePathStyle = NilBool THEN BoolPtr(FALSE)
  ELSE given.UsePathStyle

\* C3: with an explicit valid Provider the detection is not called, the
\* resolved Provider is the caller's for every endpoint, and region, TLS flag
\* and addressing style are those the rules give for the caller's provider;
\* a client built from it has the addressing of that provider.
C3_ExplicitProviderWins ==
  (Resolved /\ cfg0.Provider \in ValidProviders) =>
    /\ detects = 0
    /\ cfg.Provider = cfg0.Provider
    /\ cfg.Region = RegionFor(cfg0.Provider, resolverIn)
    /\ cfg.UseSSL = UseSSLFor(cfg0.Provider, cfg0)
    /\ cfg.UsePathStyle = UsePathStyleFor(cfg0.Provider, cfg0)
    /\ Constructed =>
         client.s3Client.UsePathStyle = Deref(UsePathStyleFor(cfg0.Provider, cfg0))

\* NewClient on Provider aws with endpoint http://localhost:9000, TLS on and
\* no addressing style: aws, TLS on, virtual-hosted.
C3_Witness ==
  /\ Constructed
  /\ cfg0.Provider = ProviderAWS
  /\ cfg0.Endpoint = S_http \o S_localhost \o S_port9000
  /\ cfg0.UseSSL
  /\ cfg0.UsePathStyle = NilBool
  /\ detectProviderType(cfg0.Endpoint) = ProviderMinIO
  /\ cfg.Provider = ProviderAWS
  /\ cfg.UseSSL
  /\ cfg.UsePathStyle = BoolPtr(FALSE)
  /\ ~client.s3Client.UsePathStyle

\* C4: a resolved Config with provider minio, explicit or detected, has region
\* us-east-1 whatever region the caller gave; with provider aws, digitalocean
\* or custom a region the caller gave is unchanged.
C4_RegionForcedForMinIOOnly ==
  Resolved =>
    /\ cfg.Provider = ProviderMinIO => cfg.Region = "us-east-1"
    /\ (/\ cfg.Provider \in {ProviderAWS, ProviderDigitalOcean, ProviderCustom}
        /\ cfg0.Region # "") => cfg.Region = cfg0.Region

\* The resolver on {Provider minio, http://localhost:9000, region eu-west-1}:
\* minio, us-east-1, TLS off, path-style.
C4_Witness ==
  /\ phase = "resolved"
  /\ cfg0.Provider = ProviderMinIO
  /\ cfg0.Endpoint = S_http \o S_localhost \o S_port9000
  /\ cfg0.Region = "eu-west-1"
  /\ cfg.Provider = ProviderMinIO
  /\ cfg.Region = "us-east-1"
  /\ ~cfg.UseSSL
  /\ cfg.UsePathStyle = BoolPtr(TRUE)

\* The Config of the scenario of C5: only Endpoint and BucketName are set.
DOScenarioConfig ==
  [Provider |-> "", Region |-> "", AccessKeyID |-> "", SecretAccessKey |-> "",
   Endpoint |-> S_https \o S_nyc3 \o S_dot \o S_dospaces, BucketName |-> "b",
   UseSSL |-> FALSE, UsePathStyle |-> NilBool]

\* C5: a Config the resolver receives with an empty Region gets the region of
\* its provider: aws us-east-1, digitalocean nyc3, minio and custom us-east-1;
\* and the resolver on {Endpoint https://nyc3.digitaloceanspaces.com,
\* BucketName b} gives digitalocean, nyc3, virtual-hosted.
C5_RegionDefaultByProvider ==
  /\ (Resolved /\ resolverIn.Region = "") =>
       /\ cfg.Provider = ProviderAWS => cfg.Region = "us-east-1"
       /\ cfg.Provider = ProviderDigitalOcean => cfg.Region = "nyc3"
       /\ cfg.Provider \in {ProviderMinIO, ProviderCustom} => cfg.Region = "us-east-1"
  /\ (Resolved /\ resolverIn = DOScenarioConfig) =>
       /\ cfg.Provider = ProviderDigitalOcean
       /\ cfg.Region = "nyc3"
       /\ cfg.UsePathStyle = BoolPtr(FALSE)

\* The scenario: the resolver has run on that Config.
C5_Witness ==
  /\ Resolved
  /\ resolverIn = DOScenarioConfig
  /\ cfg.Provider = ProviderDigitalOcean
  /\ cfg.Region = "nyc3"

\* An endpoint with no scheme at all.
SchemeLess(endpoint) == ~Contains(endpoint, <<":", "/", "/">>)

\* C6: for a resolved Config with provider minio or custom, an endpoint
\* starting with http:// gives UseSSL false, one starting with https:// gives
\* UseSSL true, and an empty or scheme-less endpoint keeps the caller's flag;
\* with provider aws or digitalocean the caller's flag is kept for every
\* endpoint.
C6_TLSInference ==
  Resolved =>
    /\ cfg.Provider \in {ProviderMinIO, ProviderCustom} =>
         /\ HasPrefix(cfg0.Endpoint, S_http) => ~cfg.UseSSL
         /\ HasPrefix(cfg0.Endpoint, S_https) => cfg.UseSSL
         /\ SchemeLess(cfg0.Endpoint) => cfg.UseSSL = cfg0.UseSSL
    /\ cfg.Provider \in {ProviderAWS, ProviderDigitalOcean} =>
         cfg.UseSSL = cfg0.UseSSL

\* NewClient on NewConfig(minio, eu-west-1, .., http://localhost:9000, b),
\* which sets UseSSL: the client's Config has TLS off.
C6_Witness ==
  /\ Constructed
  /\ cfg0 = NewConfig(ProviderMinIO, "eu-west-1", "minioadmin", "minioadmin",
                      S_http \o S_localhost \o S_port9000, "b")
  /\ cfg0.UseSSL
  /\ ~cfg.UseSSL

\* C7: for a resolved Config with provider aws or digitalocean, UsePathStyle
\* is the caller's when the caller set it and false when the caller left it
\* unset; the transport of a client is path-style exactly when the resolved
\* UsePathStyle is true.
C7_AddressingKeptForAWSAndDO ==
  /\ (Resolved /\ cfg.Provider \in {ProviderAWS, ProviderDigitalOcean}) =>
       /\ cfg0.UsePathStyle # NilBool => cfg.UsePathStyle = cfg0.UsePathStyle
       /\ cfg0.UsePathStyle = NilBool => cfg.UsePathStyle = BoolPtr(FALSE)
  /\ Constructed =>
       /\ cfg.UsePathStyle # NilBool
       /\ client.s3Client.UsePathStyle = Deref(cfg.UsePathStyle)

\* A client for a Space whose caller asked for path-style: path-style; the
\* Space has an endpoint, and its transport is not path-style without asking.
C7_Witness ==
  /\ Constructed
  /\ cfg.Provider = ProviderDigitalOcean
  /\ cfg0.Endpoint # << >>
  /\ cfg0.UsePathStyle = BoolPtr(TRUE)
  /\ cfg.UsePathStyle = BoolPtr(TRUE)
  /\ client.s3Client.UsePathStyle

\* C8: a client whose provider is minio or custom, explicit or detected, has
\* UsePathStyle true in its Config and a path-style transport, whatever the
\* caller set UsePathStyle to.
C8_PathStyleForcedForMinIOAndCustom ==
  (Constructed /\ cfg.Provider \in {ProviderMinIO, ProviderCustom}) =>
    /\ cfg.UsePathStyle = BoolPtr(TRUE)
    /\ client.s3Client.UsePathStyle

\* A client with detected provider custom whose caller asked for
\* virtual-hosted addressing.
C8_Witness ==
  /\ Constructed
  /\ cfg0.Provider = ""
  /\ cfg.Provider = ProviderCustom
  /\ cfg0.UsePathStyle = BoolPtr(FALSE)
  /\ cfg.UsePathStyle = BoolPtr(TRUE)
  /\ client.s3Client.UsePathStyle

\* C9: the Config of a client is concrete and consistent: Provider is one of
\* the four, Region is not empty, UsePathStyle is not nil, minio has region
\* us-east-1 and path-style, custom has path-style, and for minio and custom
\* with an http:// or https:// endpoint UseSSL agrees with the scheme.
C9_ResolvedConfigConsistent ==
  Constructed =>
    /\ cfg.Provider \in ValidProviders
    /\ cfg.Region # ""
    /\ cfg.UsePathStyle # NilBool
    /\ cfg.Provider = ProviderMinIO =>
         cfg.Region = "us-east-1" /\ cfg.UsePathStyle = BoolPtr(TRUE)
    /\ cfg.Provider = ProviderCustom => cfg.UsePathStyle = BoolPtr(TRUE)
    /\ cfg.Provider \in {ProviderMinIO, ProviderCustom} =>
         /\ HasPrefix(cfg.Endpoint, S_http) => ~cfg.UseSSL
         /\ HasPrefix(cfg.Endpoint, S_https) => cfg.UseSSL

\* A client built from a Config with no provider, no region, no addressing
\* style and TLS off, for https://minio.cdn.nspublic.xyz.
C9_Witness ==
  /\ Constructed
  /\ cfg0.Provider = ""
  /\ cfg0.Region = ""
  /\ cfg0.UsePathStyle = NilBool
  /\ ~cfg0.UseSSL
  /\ cfg0.Endpoint = S_https \o S_minio \o S_dot \o S_cdn
  /\ cfg.Provider = ProviderMinIO
  /\ cfg.UseSSL

\* NewClient has returned.
Returned == phase \in {"client", "failed"}

\* C10: NewClient on a Config with a bucket and credentials whose Provider is
\* set to a value outside the four, or whose provider is minio with an empty
\* endpoint, returns no client and an error that is ErrInvalidConfig.
C10_RejectedAsInvalidConfig ==
  (/\ Returned
   /\ cfg0 # NoConfig
   /\ ValidateConfig(cfg0).err = NoError
   /\ \/ cfg0.Provider \notin ValidProviders \cup {""}
      \/ cfg0.Provider = ProviderMinIO /\ cfg0.Endpoint = << >>) =>
    /\ client = NoClient
    /\ ErrorsIs(err, ErrInvalidConfig)

\* ValidateConfig has returned.
Validated == phase = "validated"

\* C11: ValidateConfig fails at the first of: a nil cfg, with
\* ErrInvalidConfig; an empty BucketName, with ErrEmptyBucketName; an empty
\* AccessKeyID or SecretAccessKey, with ErrInvalidConfig; and succeeds
\* otherwise, an empty Region included.
C11_ValidateConfigOrder ==
  Validated =>
    IF cfg0 = NoConfig THEN err = ErrInvalidConfig
    ELSE IF cfg0.BucketName = ""
    THEN ErrorsIs(err, ErrEmptyBucketName) /\ ~ErrorsIs(err, ErrInvalidConfig)
    ELSE IF cfg0.AccessKeyID = "" \/ cfg0.SecretAccessKey = ""
    THEN ErrorsIs(err, ErrInvalidConfig) /\ ~ErrorsIs(err, ErrEmptyBucketName)
    ELSE err = NoError

\* ValidateConfig on a Config with no bucket and no credentials: the error is
\* ErrEmptyBucketName.
C11_Witness ==
  /\ Validated
  /\ cfg0 # NoConfig
  /\ cfg0.BucketName = ""
  /\ cfg0.AccessKeyID = ""
  /\ cfg0.SecretAccessKey = ""
  /\ ErrorsIs(err, ErrEmptyBucketName)

(***************************************************************************)
(* Properties of the operations (specification SpecOps).                   *)
(***************************************************************************)
\* An operation, or a call of a function, has returned.
Returns(name) == ret # NoRet /\ ret.op = name

\* C12: ValidateKey fails with empty-key for the empty key and returns nil
\* for every other key, whatever its content, length or characters.
C12_ValidateKey ==
  Returns("ValidateKey") =>
    IF ret.keys[1] = ""
    THEN ret.err = ErrEmptyKey
    ELSE ret.err = NoError

C12_Witness ==
  /\ Returns("ValidateKey")
  /\ ret.keys[1] = "test/hello.txt"
  /\ ret.err = NoError


\* The operations of a Client that take a key or keys.
KeyOperations ==
  {"Upload", "UploadFromReader", "Download", "DownloadToWriter", "Delete",
   "DeleteMultiple", "Exists", "GetObjectInfo", "GeneratePresignedURL"}

\* One of the keys the caller supplied is empty.
EmptyKeySupplied == \E i \in 1..Len(ret.keys) : ret.keys[i] = ""

\* C13: every operation of a Client that takes a key or keys validates them
\* first: when a supplied key is empty the operation returns empty-key and
\* has made no call to the transport.
C13_KeysValidatedFirst ==
  (ret # NoRet /\ ret.op \in KeyOperations /\ EmptyKeySupplied) =>
    /\ ErrorsIs(ret.err, ErrEmptyKey)
    /\ calls = << >>


\* C14: WrapS3Error(nil) is nil, and WrapS3Error applied to what
\* WrapS3Error returned returns that same error.
C14_WrapS3ErrorIdempotent ==
  Returns("WrapS3Error") =>
    /\ ret.arg = NoError => ret.err = NoError
    /\ ret.n >= 2 => ret.err = ret.arg
    /\ WrapS3Error(WrapS3Error(ret.arg)) = WrapS3Error(ret.arg)

\* The second call, on an error the first call built from a transport error.
C14_Witness ==
  /\ Returns("WrapS3Error")
  /\ ret.n = 2
  /\ ret.arg = ErrorfW(ErrObjectNotFound, TransportError({T_NotFound}).msg)
  /\ ret.err = ret.arg


\* The domain kinds of an error.
ObjectNotFoundKind(e) ==
  ErrorsIs(e, ErrObjectNotFound) /\ ~ErrorsIs(e, ErrBucketNotFound)
BucketNotFoundKind(e) ==
  ErrorsIs(e, ErrBucketNotFound) /\ ~ErrorsIs(e, ErrObjectNotFound)

\* C15: WrapS3Error classifies a non-nil error by what its chain holds,
\* looking for NotFound first, then NoSuchBucket, then NoSuchKey: NotFound
\* and NoSuchKey give object-not-found, NoSuchBucket gives bucket-not-found,
\* and an error with none of them is returned as it is.
C15_WrapS3ErrorClassifies ==
  (Returns("WrapS3Error") /\ ret.arg # NoError) =>
    IF T_NotFound \in ret.arg.chain THEN ObjectNotFoundKind(ret.err)
    ELSE IF T_NoSuchBucket \in ret.arg.chain THEN BucketNotFoundKind(ret.err)
    ELSE IF T_NoSuchKey \in ret.arg.chain THEN ObjectNotFoundKind(ret.err)
    ELSE ret.err = ret.arg

\* An error with NoSuchBucket and NoSuchKey in its chain: the bucket wins.
C15_Witness ==
  /\ Returns("WrapS3Error")
  /\ ret.arg # NoError
  /\ ret.arg.chain = {T_NoSuchBucket, T_NoSuchKey}
  /\ BucketNotFoundKind(ret.err)


\* The transport reports not-found.
NotFoundReported(e) == ErrorsAs(e, T_NotFound) \/ ErrorsAs(e, T_NoSuchKey)

\* C16: when the transport reports not-found to Download, DownloadToWriter
\* or GetObjectInfo, the operation returns an error of kind object-not-found
\* and no data, though it wraps the transport's error with its own context
\* before it normalizes it.
C16_NotFoundNormalized ==
  (/\ ret # NoRet
   /\ ret.op \in {"Download", "DownloadToWriter", "GetObjectInfo"}
   /\ calls # << >>
   /\ NotFoundReported(calls[1].err)) =>
    /\ ObjectNotFoundKind(ret.err)
    /\ ret.data = NoData

\* Download of a key the bucket does not hold.
C16_Witness ==
  /\ Returns("Download")
  /\ ret.keys = <<"a">>
  /\ ~Present(store, "a")
  /\ calls # << >>
  /\ calls[1].err = TransportError({T_NoSuchKey})
  /\ ret.err.msg = "object not found: failed to download object a: api error"
  /\ ObjectNotFoundKind(ret.err)
  /\ ret.data = NoData


\* C17: Exists on a non-empty key returns (true, nil) when the head call
\* succeeds, (false, nil) when the transport reports not-found, and false
\* with the normalized error for every other error of the transport; it
\* never returns true with an error, nor an error of kind object-not-found.
C17_Exists ==
  (Returns("Exists") /\ ret.keys[1] # "") =>
    /\ Len(calls) = 1
    /\ IF calls[1].err = NoError
       THEN ret.exists /\ ret.err = NoError
       ELSE IF NotFoundReported(calls[1].err)
       THEN ~ret.exists /\ ret.err = NoError
       ELSE /\ ~ret.exists
            /\ ret.err # NoError
            /\ ret.err = WrapS3Error(ret.err)
            /\ IF ErrorsAs(calls[1].err, T_NoSuchBucket)
               THEN BucketNotFoundKind(ret.err)
               ELSE calls[1].err.chain \subseteq ret.err.chain
    /\ ~(ret.exists /\ ret.err # NoError)
    /\ ~ErrorsIs(ret.err, ErrObjectNotFound)

\* Exists on a key the bucket does not hold: the head call reports NotFound.
C17_Witness ==
  /\ Returns("Exists")
  /\ ret.keys = <<"a">>
  /\ ~Present(store, "a")
  /\ Len(calls) = 1
  /\ calls[1].err = TransportError({T_NotFound})
  /\ ~ret.exists
  /\ ret.err = NoError


\* C18: Delete never reports not-found: for a non-empty key and every
\* outcome of the transport's delete call the error Delete returns is not of
\* kind object-not-found, and when the call succeeds, for an absent key as
\* for a present one, Delete returns nil.
C18_DeleteNeverNotFound ==
  (Returns("Delete") /\ ret.keys[1] # "") =>
    /\ ~ErrorsIs(ret.err, ErrObjectNotFound)
    /\ calls[1].err = NoError => ret.err = NoError

\* The part of C18 that the code keeps: a delete call that succeeds gives
\* nil, and the key is absent afterwards, whether it was present or not.
DeleteSucceedsWhenTransportDoes ==
  (Returns("Delete") /\ ret.keys[1] # "" /\ calls[1].err = NoError) =>
    ret.err = NoError /\ ~Present(store, ret.keys[1])


\* C19: DeleteMultiple with an empty list of keys returns nil and makes no
\* call to the transport.
C19_DeleteMultipleEmpty ==
  (Returns("DeleteMultiple") /\ Len(ret.keys) = 0) =>
    /\ ret.err = NoError
    /\ calls = << >>

\* On a bucket that holds an object, which it still holds afterwards.
C19_Witness ==
  /\ Returns("DeleteMultiple")
  /\ ret.keys = << >>
  /\ ret.err = NoError
  /\ calls = << >>
  /\ Present(store, "a")

\* The keys of q, each followed by ", " but the last.
RECURSIVE CommaSeparated(_)
CommaSeparated(q) ==
  IF Len(q) = 0 THEN ""
  ELSE IF Len(q) = 1 THEN q[1]
  ELSE CommaSeparated(SubSeq(q, 1, Len(q) - 1)) \o ", " \o q[Len(q)]

\* C20: DeleteMultiple with a non-empty list makes one DeleteObjects call
\* with all the keys in the caller's order.  When the call succeeds and
\* reports failed keys, the error's message is "failed to delete some
\* objects: " and the failed keys, in the order reported, separated by ", ",
\* and no other key; when it reports none, DeleteMultiple returns nil.
C20_DeleteMultipleBulk ==
  (Returns("DeleteMultiple") /\ Len(ret.keys) > 0) =>
    /\ Len(calls) = 1
    /\ calls[1].input.op = "DeleteObjects"
    /\ calls[1].input.Keys = ret.keys
    /\ calls[1].err = NoError =>
         IF Len(calls[1].errors) > 0
         THEN /\ ret.err # NoError
              /\ ret.err.msg =
                   "failed to delete some objects: " \o CommaSeparated(calls[1].errors)
         ELSE ret.err = NoError

\* Keys a, b, c, of which b fails: the error names b and nothing else.
C20_Witness ==
  /\ Returns("DeleteMultiple")
  /\ ret.keys = <<"a", "b", "c">>
  /\ Len(calls) = 1
  /\ calls[1].err = NoError
  /\ calls[1].errors = <<"b">>
  /\ ret.err # NoError
  /\ ret.err.msg = "failed to delete some objects: b"

\* Two keys fail, reported in the order c, a.
C20_WitnessOrder ==
  /\ Returns("DeleteMultiple")
  /\ ret.keys = <<"a", "b", "c">>
  /\ calls[1].errors = <<"c", "a">>
  /\ ret.err # NoError
  /\ ret.err.msg = "failed to delete some objects: c, a"


(***************************************************************************)
(* Properties of List (specification SpecList).                            *)
(***************************************************************************)
\* The objects the provider holds whose key starts with the prefix List was
\* called with, in the order the provider emits them.
Listed == SelectSeq(provider.contents, LAMBDA o : KeyHasPrefix(o.Key, ret.prefix))

\* The number of pages the provider makes of n objects.
PagesOf(n) ==
  IF n = 0 THEN 1 ELSE (n + provider.pageSize - 1) \div provider.pageSize

\* C21: when every page fetch succeeds, List returns the objects of the
\* provider's pages in the order emitted, none twice, none left out, after as
\* many fetches as the provider has pages, each fetch but the first carrying
\* the token of the page before it; with an empty prefix the request has no
\* prefix filter and the whole bucket is listed.
C21_ListFollowsPagination ==
  (Returns("List") /\ ret.err = NoError) =>
    /\ Len(ret.objects) = Len(Listed)
    /\ \A i \in 1..Len(Listed) :
         /\ ret.objects[i].Key = Listed[i].Key
         /\ ret.objects[i].Size = Listed[i].Size
         /\ ret.objects[i].ETag = Listed[i].ETag
         /\ ret.objects[i].LastModified = Listed[i].LastModified
    /\ Len(calls) = PagesOf(Len(Listed))
    /\ calls[1].input.ContinuationToken = NoToken
    /\ \A i \in 2..Len(calls) :
         calls[i].input.ContinuationToken = calls[i - 1].NextContinuationToken
    /\ ret.prefix = "" =>
         /\ \A i \in 1..Len(calls) : calls[i].input.Prefix = NoPrefix
         /\ Len(ret.objects) = Len(provider.contents)
    /\ ret.prefix # "" =>
         \A i \in 1..Len(calls) : calls[i].input.Prefix = <<ret.prefix>>

\* Five objects at a page size of two, emitted in an order that is not the
\* keys' order: three fetches, five objects.
C21_Witness ==
  /\ Returns("List")
  /\ ret.err = NoError
  /\ ret.prefix = ""
  /\ provider.pageSize = 2
  /\ Len(provider.contents) = 5
  /\ provider.contents[1].Key = "c"
  /\ Len(calls) = 3
  /\ Len(ret.objects) = 5
  /\ ret.objects[1].Key = "c"


\* C22: GeneratePresignedURL on a non-empty key makes one call, to the
\* presigner, with the caller's expiration, and no head, get or list call:
\* when the presigner succeeds it returns the URL, for a key the bucket does
\* not hold as for one it holds.  (Specification SpecOps.)
C22_PresignNoExistenceCheck ==
  (Returns("GeneratePresignedURL") /\ ret.keys[1] # "") =>
    /\ Len(calls) = 1
    /\ calls[1].input.op = "PresignGetObject"
    /\ calls[1].input.Key = ret.keys[1]
    /\ calls[1].input.Expires = ret.expiration
    /\ calls[1].err = NoError => (ret.err = NoError /\ ret.url # "")

\* A URL for a key the bucket does not hold.
C22_Witness ==
  /\ Returns("GeneratePresignedURL")
  /\ ret.keys = <<"a">>
  /\ ~Present(store, "a")
  /\ ret.expiration = 15
  /\ calls[1].input.Expires = 15
  /\ ret.err = NoError
  /\ ret.url # ""


(***************************************************************************)
(* Properties of concurrent use (specification SpecConc).                  *)
(***************************************************************************)
\* Two callers that made the same request and whose transport calls were
\* given and answered the same were returned the same.
SameAnswersSameResult ==
  \A p, q \in Callers :
    (/\ procs[p].pc = "returned"
     /\ procs[q].pc = "returned"
     /\ procs[p].req = procs[q].req
     /\ procs[p].calls = procs[q].calls) =>
      procs[p].ret = procs[q].ret

\* Every transport call is made on the bucket the Client was built for.
CallsOnClientBucket ==
  \A p \in Callers :
    \A i \in 1..Len(procs[p].calls) :
      procs[p].calls[i].input.Bucket = cfg.BucketName

\* C23: no operation writes the Client's fields or its Config, whatever the
\* interleaving of the callers' steps: client and cfg never change; what a
\* caller is returned depends on its request and on the answers to its own
\* transport calls only, also after earlier requests on the same Client.
C23_ClientNotWritten ==
  /\ [][client' = client /\ cfg' = cfg]_vars
  /\ [](client.bucketName = cfg.BucketName)
  /\ []SameAnswersSameResult
  /\ []CallsOnClientBucket

\* Caller 1 was returned a List of two pages or more, and caller 2 an
\* Upload whose transport call fell between the page fetches of that List.
C23_Witness ==
  /\ procs[1].pc = "returned"
  /\ procs[1].req.op = "List"
  /\ procs[1].overlapped
  /\ Len(procs[1].calls) >= 2
  /\ procs[2].pc = "returned"
  /\ procs[2].req.op = "Upload"
  /\ procs[2].overlapped
  /\ procs[2].ret.err = NoError


(***************************************************************************)
(* Further properties of the construction (specification Spec).            *)
(***************************************************************************)
\* C24: after a successful NewClient on a Config with an empty Region whose
\* provider is digitalocean, given or detected, the Config of the client
\* has the Region "nyc3" and the transport is built with it.
C24_DigitalOceanRegionDefault ==
  (/\ Constructed
   /\ cfg0.Region = ""
   /\ cfg.Provider = ProviderDigitalOcean) =>
    /\ cfg.Region = "nyc3"
    /\ client.s3Client.Region = "nyc3"


\* The warning of ValidateMinIOConfig.
MinIOWarning ==
  "WARNING: MinIO should use path-style addressing. Setting UsePathStyle to true"

\* What was logged.
Logged(line) == \E i \in 1..Len(log) : log[i] = line

\* C25: NewClient on a Config with provider minio, an endpoint and
\* UsePathStyle set to false by the caller logs the path-style warning, and
\* the Config has UsePathStyle = true afterwards.
C25_MinIOPathStyleWarning ==
  (/\ Constructed
   /\ cfg0.Provider = ProviderMinIO
   /\ cfg0.Endpoint # << >>
   /\ cfg0.UsePathStyle = BoolPtr(FALSE)) =>
    /\ Logged(MinIOWarning)
    /\ cfg.UsePathStyle = BoolPtr(TRUE)

\* The part of C25 that the code keeps: path style is on afterwards.
MinIOPathStyleForcedByNewClient ==
  (/\ Constructed
   /\ cfg0.Provider = ProviderMinIO
   /\ cfg0.UsePathStyle = BoolPtr(FALSE)) =>
    /\ cfg.UsePathStyle = BoolPtr(TRUE)
    /\ client.s3Client.UsePathStyle

\* NewClient never logs the warning.
NewClientLogsNothing == Returned => log = << >>


\* C26: ValidateConfig leaves the Config as it was passed in, but for an
\* empty Region, which it sets to "us-east-1" when it returns nil: no other
\* field changes, a Region that is set stays, and when it returns an error
\* the Config, its Region included, is unchanged.
C26_ValidateConfigFrame ==
  Validated =>
    IF cfg0 = NoConfig THEN cfg = NoConfig
    ELSE /\ cfg.Provider = cfg0.Provider
         /\ cfg.AccessKeyID = cfg0.AccessKeyID
         /\ cfg.SecretAccessKey = cfg0.SecretAccessKey
         /\ cfg.Endpoint = cfg0.Endpoint
         /\ cfg.BucketName = cfg0.BucketName
         /\ cfg.UseSSL = cfg0.UseSSL
         /\ cfg.UsePathStyle = cfg0.UsePathStyle
         /\ cfg0.Region # "" => cfg.Region = cfg0.Region
         /\ err # NoError => cfg = cfg0
         /\ (err = NoError /\ cfg0.Region = "") => cfg.Region = "us-east-1"

\* A Config with no credentials and no Region: rejected, the Region still
\* empty.
C26_Witness ==
  /\ Validated
  /\ cfg0 # NoConfig
  /\ cfg0.Region = ""
  /\ cfg0.AccessKeyID = ""
  /\ cfg0.BucketName # ""
  /\ err # NoError
  /\ cfg.Region = ""

\* A Config with no Region that passes: the Region is filled.
C26_WitnessFilled ==
  /\ Validated
  /\ cfg0 # NoConfig
  /\ cfg0.Region = ""
  /\ err = NoError
  /\ cfg.Region = "us-east-1"


\* NewClient has returned an error of its validation: any error it returns
\* but the one of config.LoadDefaultConfig.
ValidationFailed == phase = "failed" /\ ~ErrorsIs(err, SDKLoadError)

\* C27: when NewClient returns a validation error it has made no SDK call
\* and the caller's Config is as it was passed in.
C27_FailedConstructionNoEffect ==
  ValidationFailed =>
    /\ sdk = << >>
    /\ cfg = cfg0

\* The part of C27 that the code keeps: no SDK call before the validation
\* has passed, and no change of the Config when ValidateConfig refuses it.
FailedValidationNoSDKCall ==
  ValidationFailed =>
    /\ sdk = << >>
    /\ resolverIn = NoConfig /\ (cfg0 = NoConfig \/ cfg0.Region # "") => cfg = cfg0


(***************************************************************************)
(* Further properties of List (specifications SpecListFair, SpecList).     *)
(***************************************************************************)
\* List has returned.
ListDone == list.pc = "done"

\* Every fetch but the last was answered with a page and the token of the
\* next one: no fetch follows a page without a token, or a failure.
NoFetchAfterTheEnd ==
  \A i \in 1..(Len(calls) - 1) :
    /\ calls[i].err = NoError
    /\ calls[i].NextContinuationToken # NoToken

\* C28: when the provider's pagination ends, List returns after finitely
\* many fetches; it makes one fetch at least, for an empty bucket too, and
\* none after the page that ends the pagination.
C28_ListTerminates ==
  /\ (list.pc = "loop" /\ ~provider.loops) ~> ListDone
  /\ [](ListDone => Len(calls) >= 1)
  /\ []NoFetchAfterTheEnd
  /\ [](ListDone => (ret # NoRet /\ ret.op = "List"))

\* An empty bucket: one fetch.
C28_Witness ==
  /\ ListDone
  /\ ~provider.loops
  /\ provider.contents = << >>
  /\ Len(calls) = 1
  /\ ret.err = NoError
  /\ ret.objects = << >>

\* Three objects, one to a page: three fetches, the last without a token.
C28_WitnessPages ==
  /\ ListDone
  /\ ~provider.loops
  /\ Len(provider.contents) = 3
  /\ provider.pageSize = 1
  /\ Len(calls) = 3
  /\ calls[3].NextContinuationToken = NoToken
  /\ ret.err = NoError

\* A List on a provider whose pagination has no end is still fetching when
\* the model stops it.
ListOnLoopingProvider ==
  /\ provider.loops
  /\ list.pc = "loop"
  /\ Len(calls) = MaxFetches


\* A page fetch of the List that has returned failed.
FetchFailed == \E i \in 1..Len(calls) : calls[i].err # NoError

\* C29: when a page fetch fails, List makes no further fetch and returns the
\* normalized error and no objects, those of the pages fetched before
\* included; the error of a cancelled context comes back in the chain of the
\* error returned, which WrapS3Error leaves as it is.  (SpecList.)
C29_ListFailsWhole ==
  (Returns("List") /\ FetchFailed) =>
    /\ calls[Len(calls)].err # NoError
    /\ \A i \in 1..(Len(calls) - 1) : calls[i].err = NoError
    /\ ret.objects = << >>
    /\ ret.err # NoError
    /\ ret.err = WrapS3Error(ret.err)
    /\ ErrorsAs(calls[Len(calls)].err, T_Canceled) =>
         /\ ErrorsAs(ret.err, T_Canceled)
         /\ ret.err.msg = "failed to list objects: " \o calls[Len(calls)].err.msg
         /\ ~ErrorsIs(ret.err, ErrObjectNotFound)
         /\ ~ErrorsIs(ret.err, ErrBucketNotFound)

\* The context is cancelled between the first page, which had objects, and
\* the second.
C29_Witness ==
  /\ Returns("List")
  /\ Len(calls) = 2
  /\ calls[1].err = NoError
  /\ Len(calls[1].Contents) = 2
  /\ calls[2].err = TransportError({T_Canceled})
  /\ ret.objects = << >>
  /\ ErrorsAs(ret.err, T_Canceled)


(***************************************************************************)
(* Resolution twice (specification Spec).                                  *)
(***************************************************************************)
\* The caller's Config with the Provider set to what detection gives for
\* its endpoint.
WithDetectedProvider(c) == [c EXCEPT !.Provider = detectProviderType(c.Endpoint)]

\* C30: the resolver applied to a Config it has resolved changes nothing; a
\* second NewClient on the Config object of the first returns a client with
\* the same transport settings and leaves the Config as it is; and a Config
\* without Provider resolves to what it resolves to with the Provider that
\* detection gives for its endpoint.
C30_ResolutionIdempotent ==
  /\ [][/\ (phase = "resolved" /\ phase' = "resolved2") => cfg' = cfg
        /\ (phase = "client" /\ phase' = "client2") =>
             /\ cfg' = cfg
             /\ client' = client]_vars
  /\ []((phase = "resolved" /\ cfg0.Provider = "") =>
          cfg = autoConfigureForProvider(WithDetectedProvider(cfg0)))

\* The second NewClient has returned a client, on a Config whose provider
\* the first one detected.
C30_Witness ==
  /\ phase = "client2"
  /\ cfg0.Provider = ""
  /\ cfg0.UsePathStyle = BoolPtr(TRUE)
  /\ cfg.Provider = ProviderDigitalOcean
  /\ client # NoClient

\* The resolver has run twice on a Config whose provider it detected.
C30_WitnessResolver ==
  /\ phase = "resolved2"
  /\ cfg0.Provider = ""
  /\ cfg.Provider = ProviderMinIO


=============================================================================
